---- MODULE Spec2Model ----
(***************************************************************************)
(* Cebularz node: block tree, fork choice, UTXO set, mempool and the       *)
(* mining driver of CebularzNode, with the transaction validator and the   *)
(* block validator it calls.                                               *)
(*                                                                         *)
(* JavaScript strings are TLA+ strings and string concatenation is \o, so  *)
(* that the ids and keys the code builds by concatenation are built the    *)
(* same way here.  SHA-256 is modelled as an injective function on strings *)
(* (no collisions): the digest of s is s between two delimiters that occur *)
(* in no field the inputs are drawn from.                                  *)
(***************************************************************************)
EXTENDS Integers, Sequences, FiniteSets, TLC

VARIABLES
    \* configuration (CebularzNode fields set by the constructor)
    miner, difficulty,
    \* block tree and canonical state
    chain, blocksByHash, orphanBlocks, totalDifficultyByHash, chainTipHash,
    unspentTxOuts, transactionPool,
    \* mining driver
    miningWorker, cancelSAB, miningInProgress, miningRestartPending,
    restartDebounceTimer,
    \* environment of the driver: worker threads, shared cancel words, timers
    workers, sabs, respawnTimers, retryTimers, listening, registering,
    \* wall clock read by Date.now()
    now,
    \* history of the last reorganisation made by the last handler
    lastReorg,
    \* history kept by ClockSpec: the hashes of the blocks that
    \* handleReceivedBlock has rejected
    rejected,
    \* history: the jobs (by cancel word) that the restart debounce timer has
    \* canceled and marked restart-pending for, and whose message is still to be
    \* handled
    markedJobs,
    \* the worker thread inside one call of mineBlock: its counters, the cancel
    \* word it shares with the node, and what the call returns
    search,
    \* this.peers
    peers,
    \* history kept by GossipSpec: the last POST /blocks/new that was handled
    \* and the pushes its broadcastBlock sent
    lastPush,
    \* the other nodes of the network: their peers, the pushes in flight between
    \* the nodes, and the history of the pushes sent and handled
    network,
    \* the timers of setTimeout that are pending for restartDebounceTimer, the
    \* handle the field holds, and the history of the requests and restarts
    timeouts

coreVars == <<chain, blocksByHash, orphanBlocks, totalDifficultyByHash,
              chainTipHash, unspentTxOuts, transactionPool>>
driverVars == <<miningWorker, cancelSAB, miningInProgress, miningRestartPending>>
envVars == <<workers, sabs, respawnTimers, retryTimers>>
gossipVars == <<peers, lastPush, network>>
vars == <<miner, difficulty, coreVars, driverVars, restartDebounceTimer,
          envVars, listening, registering, now, lastReorg, rejected, markedJobs, search, gossipVars, timeouts>>

-----------------------------------------------------------------------------
(* Sequence helpers (Array.prototype.filter / map / reduce / some)         *)

RECURSIVE Join(_)
\* reduce((acc, val) => acc + val, '') over strings
Join(ss) == IF ss = <<>> THEN "" ELSE Head(ss) \o Join(Tail(ss))

RECURSIVE SumSeq(_)
\* reduce((a, b) => a + b, 0) over numbers
SumSeq(ns) == IF ns = <<>> THEN 0 ELSE Head(ns) + SumSeq(Tail(ns))

RECURSIVE Flatten(_)
\* [].push(...x) over a list of lists, in order
Flatten(ss) == IF ss = <<>> THEN <<>> ELSE Head(ss) \o Flatten(Tail(ss))

Range(s) == {s[k] : k \in DOMAIN s}

-----------------------------------------------------------------------------
(* Hasher and keys                                                         *)

sha256Hex(s) == "<" \o s \o ">"

\* Buffer.from(id, HEX): the bytes a hex digest denotes
BufferFromHex(s) == "0x" \o s

\* edSign(null, msg, privateKey): the private key is named by its public PEM
edSign(msg, key) == "sig[" \o key \o "," \o msg \o "]"

\* the PEM strings createPublicKey accepts
PublicKeys == {"pkA", "pkB"}

\* edVerify(null, msg, publicKey, signature)
edVerify(msg, publicKey, signature) == signature = edSign(msg, publicKey)

-----------------------------------------------------------------------------
(* Transactions                                                            *)

COINBASE_AMOUNT == 100

TxIn(txOutId, txOutIndex, signature, publicKey) ==
    [txOutId |-> txOutId, txOutIndex |-> txOutIndex,
     signature |-> signature, publicKey |-> publicKey]

TxOut(address, amount) == [address |-> address, amount |-> amount]

UnspentTxOut(txOutId, txOutIndex, address, amount) ==
    [txOutId |-> txOutId, txOutIndex |-> txOutIndex,
     address |-> address, amount |-> amount]

generateTransactionId(txIns, txOuts) ==
    LET txInContent ==
            Join([k \in DOMAIN txIns |->
                    txIns[k].txOutId \o ToString(txIns[k].txOutIndex)])
        txOutContent ==
            Join([k \in DOMAIN txOuts |->
                    txOuts[k].address \o ToString(txOuts[k].amount)])
    IN  sha256Hex(txInContent \o txOutContent)

Transaction(txIns, txOuts) ==
    [id |-> generateTransactionId(txIns, txOuts), txIns |-> txIns, txOuts |-> txOuts]

\* `${txOutId}:${txOutIndex}`
UtxoKey(txOutId, txOutIndex) == txOutId \o ":" \o ToString(txOutIndex)

HasUnspentTxOut(transactionId, index, aUnspentTxOuts) ==
    \E k \in DOMAIN aUnspentTxOuts :
        /\ aUnspentTxOuts[k].txOutId = transactionId
        /\ aUnspentTxOuts[k].txOutIndex = index

\* Array.prototype.find: the first match (used only where one exists)
findUnspentTxOut(transactionId, index, aUnspentTxOuts) ==
    LET Match(k) == /\ aUnspentTxOuts[k].txOutId = transactionId
                    /\ aUnspentTxOuts[k].txOutIndex = index
        first == CHOOSE k \in DOMAIN aUnspentTxOuts :
                    Match(k) /\ \A j \in 1..(k - 1) : ~Match(j)
    IN  aUnspentTxOuts[first]

signTxIn(transaction, txInIndex, privateKey) ==
    edSign(BufferFromHex(transaction.id), privateKey)

updateUnspentTxOuts(newTransactions, current) ==
    LET allIns == Flatten([k \in DOMAIN newTransactions |-> newTransactions[k].txIns])
        consumedKeys == {UtxoKey(allIns[k].txOutId, allIns[k].txOutIndex) :
                            k \in DOMAIN allIns}
        CreatedBy(tx) == [idx \in DOMAIN tx.txOuts |->
                            UnspentTxOut(tx.id, idx - 1, tx.txOuts[idx].address,
                                         tx.txOuts[idx].amount)]
        created == Flatten([k \in DOMAIN newTransactions |->
                                CreatedBy(newTransactions[k])])
        Kept(u) == UtxoKey(u.txOutId, u.txOutIndex) \notin consumedKeys
    IN  SelectSeq(current, Kept) \o created

\* every field of a model transaction has the type the code asks for; what
\* is left of the structure check is the sign of the amounts
isValidTransactionStructure(t) ==
    \A k \in DOMAIN t.txOuts : t.txOuts[k].amount >= 0

validateTxIn(txIn, transaction, uTxOuts) ==
    /\ HasUnspentTxOut(txIn.txOutId, txIn.txOutIndex, uTxOuts)
    /\ LET referencedUTxOut == findUnspentTxOut(txIn.txOutId, txIn.txOutIndex, uTxOuts)
           derivedAddress == sha256Hex(txIn.publicKey)
       IN  /\ derivedAddress = referencedUTxOut.address
           /\ txIn.publicKey \in PublicKeys
           /\ edVerify(BufferFromHex(transaction.id), txIn.publicKey, txIn.signature)

getTxInAmount(txIn, uTxOuts) ==
    findUnspentTxOut(txIn.txOutId, txIn.txOutIndex, uTxOuts).amount

\* a check for repeated inputs that never finds one
hasDuplicates_Never(txIns) == FALSE

hasDuplicates(txIns) ==
    \E i, j \in DOMAIN txIns :
        /\ i < j
        /\ txIns[i].txOutId \o ToString(txIns[i].txOutIndex)
             = txIns[j].txOutId \o ToString(txIns[j].txOutIndex)

validateTransaction(transaction, aUnspentTxOuts) ==
    /\ isValidTransactionStructure(transaction)
    /\ generateTransactionId(transaction.txIns, transaction.txOuts) = transaction.id
    /\ \A k \in DOMAIN transaction.txIns :
            validateTxIn(transaction.txIns[k], transaction, aUnspentTxOuts)
    /\ LET totalTxInValues ==
               SumSeq([k \in DOMAIN transaction.txIns |->
                          getTxInAmount(transaction.txIns[k], aUnspentTxOuts)])
           totalTxOutValues ==
               SumSeq([k \in DOMAIN transaction.txOuts |-> transaction.txOuts[k].amount])
       IN  totalTxInValues = totalTxOutValues

getCoinbaseTransaction(address, blockIndex) ==
    Transaction(<<TxIn("", blockIndex, "", "")>>, <<TxOut(address, COINBASE_AMOUNT)>>)

validateCoinbaseTx(transaction, blockIndex) ==
    /\ generateTransactionId(transaction.txIns, transaction.txOuts) = transaction.id
    /\ Len(transaction.txIns) = 1
    /\ transaction.txIns[1].txOutIndex = blockIndex
    /\ Len(transaction.txOuts) = 1
    /\ transaction.txOuts[1].amount = COINBASE_AMOUNT

validateBlockTransactions(txs, uTxOs, blockIndex) ==
    IF blockIndex = 0 THEN txs = <<>>
    ELSE /\ txs # <<>>
         /\ validateCoinbaseTx(txs[1], blockIndex)
         /\ ~hasDuplicates(Flatten([k \in DOMAIN txs |-> txs[k].txIns]))
         /\ \A k \in 2..Len(txs) : validateTransaction(txs[k], uTxOs)

\* UnspentTxOut[] | null as a record: ok = FALSE is null
processTransactions(txs, uTxOs, blockIndex) ==
    IF ~validateBlockTransactions(txs, uTxOs, blockIndex)
    THEN [ok |-> FALSE, utxo |-> <<>>]
    ELSE [ok |-> TRUE, utxo |-> updateUnspentTxOuts(txs, uTxOs)]

-----------------------------------------------------------------------------
(* Blocks (blockchain.ts)                                                  *)
(*                                                                         *)
(* A 64-digit hex digest is a record: the number of its leading '0' digits *)
(* and the string that identifies it.  The digest of a block header has as *)
(* many leading zeros as the header's nonce (at most 64): the search for a *)
(* nonce is a search for a header whose digest has enough of them.         *)

HashText(h) == ToString(h.zeros) \o "." \o h.digest

TxInText(i) ==
    "(" \o i.txOutId \o "," \o ToString(i.txOutIndex) \o "," \o i.signature \o ","
        \o i.publicKey \o ")"

TxOutText(o) == "(" \o o.address \o "," \o ToString(o.amount) \o ")"

\* JSON.stringify of one transaction
TxText(tx) ==
    "{" \o tx.id \o "[" \o Join([k \in DOMAIN tx.txIns |-> TxInText(tx.txIns[k])])
        \o "][" \o Join([k \in DOMAIN tx.txOuts |-> TxOutText(tx.txOuts[k])]) \o "]}"

\* JSON.stringify(payload.data)
DataText(data) ==
    "{" \o data.miner \o "[" \o
        Join([k \in DOMAIN data.transactions |-> TxText(data.transactions[k])]) \o "]}"

hashBlockPayload(payload) ==
    [zeros |-> IF payload.nonce <= 64 THEN payload.nonce ELSE 64,
     digest |-> sha256Hex(ToString(payload.height) \o "|" \o ToString(payload.timestamp)
                    \o "|" \o HashText(payload.prevHash) \o "|" \o DataText(payload.data)
                    \o "|" \o ToString(payload.nonce) \o "|" \o ToString(payload.difficulty))]

\* a test of the proof of work that every hash passes
meetsDifficulty_Always(hashHex, d) == TRUE

meetsDifficulty(hashHex, d) ==
    IF d <= 0 THEN TRUE
    ELSE IF d > 64 THEN FALSE
    ELSE hashHex.zeros >= d

Block(height, timestamp, prevHash, data, nonce, diff, hash) ==
    [height |-> height, timestamp |-> timestamp, prevHash |-> prevHash, data |-> data,
     nonce |-> nonce, difficulty |-> diff, hash |-> hash]

\* { ...payload, hash }
Sealed(height, timestamp, prevHash, data, nonce, diff) ==
    Block(height, timestamp, prevHash, data, nonce, diff,
          hashBlockPayload([height |-> height, timestamp |-> timestamp,
                            prevHash |-> prevHash, data |-> data, nonce |-> nonce,
                            difficulty |-> diff]))

createGenesisBlock ==
    Sealed(0, 0, [zeros |-> 64, digest |-> ""],
           [miner |-> "genesis", transactions |-> <<>>], 0, 0)

FUTURE_TOLERANCE_MS == 60000

\* a header check that does not look at the proof of work
isValidNewBlock_NoWork(block, prev, expectedDifficulty, dateNow) ==
    /\ block.height = prev.height + 1
    /\ block.prevHash = prev.hash
    /\ block.difficulty = expectedDifficulty
    /\ hashBlockPayload([height |-> block.height, timestamp |-> block.timestamp,
                         prevHash |-> block.prevHash, data |-> block.data,
                         nonce |-> block.nonce, difficulty |-> block.difficulty])
          = block.hash
    /\ ~(block.timestamp - dateNow > FUTURE_TOLERANCE_MS)
    /\ ~(block.timestamp < prev.timestamp)

isValidNewBlock(block, prev, expectedDifficulty, dateNow) ==
    /\ block.height = prev.height + 1
    /\ block.prevHash = prev.hash
    /\ block.difficulty = expectedDifficulty
    /\ hashBlockPayload([height |-> block.height, timestamp |-> block.timestamp,
                         prevHash |-> block.prevHash, data |-> block.data,
                         nonce |-> block.nonce, difficulty |-> block.difficulty])
          = block.hash
    /\ meetsDifficulty(block.hash, block.difficulty)
    /\ ~(block.timestamp - dateNow > FUTURE_TOLERANCE_MS)
    /\ ~(block.timestamp < prev.timestamp)

validateChain(c, expectedDifficulty, dateNow) ==
    /\ c # <<>>
    /\ c[1] = createGenesisBlock
    /\ \A i \in 2..Len(c) : isValidNewBlock(c[i], c[i - 1], expectedDifficulty, dateNow)

-----------------------------------------------------------------------------
(* CebularzNode: block tree, fork choice, mempool                          *)
(*                                                                         *)
(* blocksByHash (a Map) is the list of its blocks in insertion order;      *)
(* totalDifficultyByHash and orphanBlocks (Maps) are functions on the keys *)
(* they hold.  The handlers are operators from a record of the node's      *)
(* fields to the record after the handler: handleReceivedBlock calls       *)
(* itself while it drains the orphans of a block.                          *)

MapHas(m, hash) == \E k \in DOMAIN m : m[k].hash = hash

MapGet(m, hash) == m[CHOOSE k \in DOMAIN m : m[k].hash = hash]

MapSet(m, block) ==
    IF MapHas(m, block.hash)
    THEN [k \in DOMAIN m |-> IF m[k].hash = block.hash THEN block ELSE m[k]]
    ELSE Append(m, block)

FnSet(f, key, value) ==
    [k \in DOMAIN f \cup {key} |-> IF k = key THEN value ELSE f[k]]

\* a delete that leaves the entry where it is
FnDelete_Keeping(f, key) == f

FnDelete(f, key) == [k \in DOMAIN f \ {key} |-> f[k]]

\* the ?? 0 of a lookup in totalDifficultyByHash
TotalOf(td, hash) == IF hash \in DOMAIN td THEN td[hash] ELSE 0

NoReorg == [switched |-> FALSE, detachedBlocks |-> <<>>, newChainTxIds |-> {},
            unspentTxOuts |-> <<>>, considered |-> <<>>, transactionPool |-> <<>>]

Node == [chain |-> chain, blocksByHash |-> blocksByHash, orphanBlocks |-> orphanBlocks,
         totalDifficultyByHash |-> totalDifficultyByHash, chainTipHash |-> chainTipHash,
         unspentTxOuts |-> unspentTxOuts, transactionPool |-> transactionPool,
         restartDebounceTimer |-> restartDebounceTimer, lastReorg |-> NoReorg,
         miner |-> miner, miningWorker |-> miningWorker, cancelSAB |-> cancelSAB,
         miningInProgress |-> miningInProgress,
         miningRestartPending |-> miningRestartPending,
         workers |-> workers, sabs |-> sabs,
         respawnTimers |-> respawnTimers, retryTimers |-> retryTimers,
         rejected |-> {}]

\* a weight that counts the blocks after genesis, whatever their difficulty
blockDifficultyWeight_PerBlock(block) == IF block.height = 0 THEN 0 ELSE 1

blockDifficultyWeight(block) == block.difficulty

getLatestBlock(st) ==
    IF MapHas(st.blocksByHash, st.chainTipHash)
    THEN MapGet(st.blocksByHash, st.chainTipHash)
    ELSE st.chain[Len(st.chain)]

RECURSIVE WalkToGenesis(_, _, _)
WalkToGenesis(blocks, current, seen) ==
    IF current.hash \in seen THEN <<>>
    ELSE IF current.height = 0 THEN <<current>>
    ELSE IF MapHas(blocks, current.prevHash)
         THEN Append(WalkToGenesis(blocks, MapGet(blocks, current.prevHash),
                                   seen \cup {current.hash}), current)
         ELSE <<current>>

calculateChainFromTip(blocks, block) == WalkToGenesis(blocks, block, {})

RECURSIVE getTotalDifficulty(_, _, _)
\* the cache after the call; the call's value is TotalOf(that cache, tipHash)
getTotalDifficulty(td, blocks, tipHash) ==
    IF tipHash \in DOMAIN td THEN td
    ELSE IF ~MapHas(blocks, tipHash) THEN td
    ELSE LET tip == MapGet(blocks, tipHash) IN
         IF tip.height = 0 THEN FnSet(td, tip.hash, blockDifficultyWeight(tip))
         ELSE LET td1 == getTotalDifficulty(td, blocks, tip.prevHash)
                  parentTotal == TotalOf(td1, tip.prevHash)
              IN  FnSet(td1, tip.hash, parentTotal + blockDifficultyWeight(tip))

\* a conflict test that compares ids only and not the inputs
isTxConflictingWithMempool_IdOnly(pool, tx) ==
    \E k \in DOMAIN pool : pool[k].id = tx.id

isTxConflictingWithMempool(pool, tx) ==
    \/ \E k \in DOMAIN pool : pool[k].id = tx.id
    \/ LET poolIns == Flatten([k \in DOMAIN pool |-> pool[k].txIns])
           usedInMempool == {UtxoKey(poolIns[k].txOutId, poolIns[k].txOutIndex) :
                                k \in DOMAIN poolIns}
       IN  \E k \in DOMAIN tx.txIns :
               UtxoKey(tx.txIns[k].txOutId, tx.txIns[k].txOutIndex) \in usedInMempool

\* an unspent-outputs query that does not look at the mempool
getUnspent_Unfiltered(st, address) ==
    LET Owned(u) == u.address = address
    IN  SelectSeq(st.unspentTxOuts, Owned)

\* GET /unspent/:address
getUnspent(st, address) ==
    LET poolIns == Flatten([k \in DOMAIN st.transactionPool |->
                               st.transactionPool[k].txIns])
        usedInMempool == {UtxoKey(poolIns[k].txOutId, poolIns[k].txOutIndex) :
                             k \in DOMAIN poolIns}
        Available(u) == /\ u.address = address
                        /\ UtxoKey(u.txOutId, u.txOutIndex) \notin usedInMempool
    IN  SelectSeq(st.unspentTxOuts, Available)

\* GET /balance/:address
getBalance(st, address) ==
    LET Owned(u) == u.address = address
        uTxOs == SelectSeq(st.unspentTxOuts, Owned)
    IN  SumSeq([k \in DOMAIN uTxOs |-> uTxOs[k].amount])

\* clearTimeout of the pending timer, setTimeout of a new one
requestMiningRestart(st) ==
    IF ~st.miner THEN st ELSE [st EXCEPT !.restartDebounceTimer = TRUE]

\* a pool that does not validate what it takes
addToTransactionPool_Unvalidated(st, tx) ==
    IF isTxConflictingWithMempool(st.transactionPool, tx) THEN st
    ELSE requestMiningRestart([st EXCEPT !.transactionPool = Append(@, tx)])

addToTransactionPool(st, tx) ==
    IF ~validateTransaction(tx, st.unspentTxOuts) THEN st
    ELSE IF isTxConflictingWithMempool(st.transactionPool, tx) THEN st
    ELSE requestMiningRestart([st EXCEPT !.transactionPool = Append(@, tx)])

removeTxsFromTransactionPool(pool, minedTxs) ==
    LET minedIds == {minedTxs[k].id : k \in DOMAIN minedTxs}
        Kept(t) == t.id \notin minedIds
    IN  SelectSeq(pool, Kept)

RECURSIVE ReplayFrom(_, _)
\* the replay loop of handleReceivedBlock and syncFromPeer: tempUTxO after
\* the blocks of c, or null at the first block whose transactions fail
ReplayFrom(c, tempUTxO) ==
    IF c = <<>> THEN [ok |-> TRUE, utxo |-> tempUTxO]
    ELSE LET newUTxO == processTransactions(Head(c).data.transactions, tempUTxO,
                                            Head(c).height)
         IN  IF ~newUTxO.ok THEN newUTxO ELSE ReplayFrom(Tail(c), newUTxO.utxo)

ChainTxs(c) == Flatten([k \in DOMAIN c |-> c[k].data.transactions])

RECURSIVE Readmit(_, _, _, _)
\* the loop over detachedTxs: the pool it leaves, and for the history each
\* transaction with the pool it was checked against
Readmit(acc, txs, newChainTxIds, utxo) ==
    IF txs = <<>> THEN acc
    ELSE LET tx == Head(txs)
             seen == Append(acc.considered, [tx |-> tx, pool |-> acc.pool])
             next ==
                 IF tx.id = "" THEN acc
                 ELSE IF tx.id \in newChainTxIds THEN acc
                 ELSE IF ~validateTransaction(tx, utxo) THEN acc
                 ELSE IF isTxConflictingWithMempool(acc.pool, tx) THEN acc
                 ELSE [acc EXCEPT !.pool = Append(@, tx)]
         IN  Readmit([next EXCEPT !.considered = seen], Tail(txs), newChainTxIds, utxo)

\* a switch that keeps the UTXO set of the old chain
Reorganize_KeepingUtxo(st, block, tempUTxO) ==
    LET oldCanonical == st.chain
        newCanonical == calculateChainFromTip(st.blocksByHash, block)
        newChainTxs == ChainTxs(newCanonical)
        pool1 == removeTxsFromTransactionPool(st.transactionPool, newChainTxs)
        newHashes == {newCanonical[k].hash : k \in DOMAIN newCanonical}
        Detached(b) == b.hash \notin newHashes
        detachedTxs == ChainTxs(SelectSeq(oldCanonical, Detached))
        newChainTxIds == {newChainTxs[k].id : k \in DOMAIN newChainTxs}
        done == Readmit([pool |-> pool1, considered |-> <<>>], detachedTxs,
                        newChainTxIds, st.unspentTxOuts)
    IN  requestMiningRestart(
          [st EXCEPT !.chain = newCanonical,
                     !.chainTipHash = newCanonical[Len(newCanonical)].hash,
                     !.transactionPool = done.pool,
                     !.lastReorg = [switched |-> TRUE,
                                    detachedBlocks |-> SelectSeq(oldCanonical, Detached),
                                    newChainTxIds |-> newChainTxIds,
                                    unspentTxOuts |-> st.unspentTxOuts,
                                    considered |-> done.considered,
                                    transactionPool |-> done.pool]])

\* the branch candidateTipTotalDifficulty > currentTipTotalDifficulty
Reorganize(st, block, tempUTxO) ==
    LET oldCanonical == st.chain
        newCanonical == calculateChainFromTip(st.blocksByHash, block)
        newChainTxs == ChainTxs(newCanonical)
        pool1 == removeTxsFromTransactionPool(st.transactionPool, newChainTxs)
        newHashes == {newCanonical[k].hash : k \in DOMAIN newCanonical}
        Detached(b) == b.hash \notin newHashes
        detachedTxs == ChainTxs(SelectSeq(oldCanonical, Detached))
        newChainTxIds == {newChainTxs[k].id : k \in DOMAIN newChainTxs}
        done == Readmit([pool |-> pool1, considered |-> <<>>], detachedTxs,
                        newChainTxIds, tempUTxO)
    IN  requestMiningRestart(
          [st EXCEPT !.unspentTxOuts = tempUTxO,
                     !.chain = newCanonical,
                     !.chainTipHash = newCanonical[Len(newCanonical)].hash,
                     !.transactionPool = done.pool,
                     !.lastReorg = [switched |-> TRUE,
                                    detachedBlocks |-> SelectSeq(oldCanonical, Detached),
                                    newChainTxIds |-> newChainTxIds,
                                    unspentTxOuts |-> tempUTxO,
                                    considered |-> done.considered,
                                    transactionPool |-> done.pool]])

\* a fork choice that also switches on equal cumulative difficulty
SwitchesTip_OnTies(candidateTipTotalDifficulty, currentTipTotalDifficulty) ==
    candidateTipTotalDifficulty >= currentTipTotalDifficulty

\* fork choice: candidateTipTotalDifficulty > currentTipTotalDifficulty
SwitchesTip(candidateTipTotalDifficulty, currentTipTotalDifficulty) ==
    candidateTipTotalDifficulty > currentTipTotalDifficulty

RECURSIVE handleReceivedBlock(_, _)
RECURSIVE DrainOrphans(_, _)

\* the return of a rejection: the node as it was; the hash is noted in the
\* field rejected of the record, which is no field of the node
Rejecting(st, block) == [st EXCEPT !.rejected = @ \cup {block.hash}]

\* a handler that takes no delivered block for one it already has
isKnownBlock_Never(st, block) == FALSE

\* this.blocksByHash.has(block.hash)
isKnownBlock(st, block) == MapHas(st.blocksByHash, block.hash)

handleReceivedBlock(st, block) ==
    LET latest == getLatestBlock(st) IN
    IF isKnownBlock(st, block) THEN st
    ELSE IF block.height <= 0 THEN st
    ELSE IF ~MapHas(st.blocksByHash, block.prevHash)
    THEN LET list == IF block.prevHash \in DOMAIN st.orphanBlocks
                     THEN st.orphanBlocks[block.prevHash] ELSE <<>>
         IN  [st EXCEPT !.orphanBlocks = FnSet(@, block.prevHash, Append(list, block))]
    ELSE
    LET parent == MapGet(st.blocksByHash, block.prevHash) IN
    IF ~isValidNewBlock(block, parent, difficulty, now) THEN Rejecting(st, block)
    ELSE
    LET candidateChain == calculateChainFromTip(st.blocksByHash, block)
        genesis == st.chain[1]
    IN
    IF candidateChain[1].hash # genesis.hash THEN Rejecting(st, block)
    ELSE
    LET replay == ReplayFrom(candidateChain, <<>>) IN
    IF ~replay.ok THEN Rejecting(st, block)
    ELSE
    LET blocks1 == MapSet(st.blocksByHash, block)
        td1 == getTotalDifficulty(st.totalDifficultyByHash, blocks1, block.hash)
        candidateTipTotalDifficulty == TotalOf(td1, block.hash)
        td2 == getTotalDifficulty(td1, blocks1, latest.hash)
        currentTipTotalDifficulty == TotalOf(td2, latest.hash)
        st1 == [st EXCEPT !.blocksByHash = blocks1, !.totalDifficultyByHash = td2]
        st2 == IF SwitchesTip(candidateTipTotalDifficulty, currentTipTotalDifficulty)
               THEN Reorganize(st1, block, replay.utxo)
               ELSE st1
    IN  IF block.hash \in DOMAIN st2.orphanBlocks /\ st2.orphanBlocks[block.hash] # <<>>
        THEN DrainOrphans([st2 EXCEPT !.orphanBlocks = FnDelete(@, block.hash)],
                          st2.orphanBlocks[block.hash])
        ELSE st2

DrainOrphans(st, waiting) ==
    IF waiting = <<>> THEN st
    ELSE DrainOrphans(handleReceivedBlock(st, Head(waiting)), Tail(waiting))

\* a rebuild of the tree that keeps the last block of the list only
MapFromList_TipOnly(c) == IF c = <<>> THEN <<>> ELSE <<c[Len(c)]>>

RECURSIVE MapFromList(_)
\* blocksByHash.clear(), then set(b.hash, b) for the blocks of c in order
MapFromList(c) ==
    IF c = <<>> THEN <<>> ELSE MapSet(MapFromList(SubSeq(c, 1, Len(c) - 1)), c[Len(c)])

\* a sync that also adopts a chain of equal cumulative difficulty
syncFromPeer_OnTies(st, remote) ==
    IF ~validateChain(remote, difficulty, now) THEN st
    ELSE
    LET remoteTotalDifficulty ==
            SumSeq([k \in DOMAIN remote |-> blockDifficultyWeight(remote[k])])
        localTip == getLatestBlock(st)
        tdLocal == getTotalDifficulty(st.totalDifficultyByHash, st.blocksByHash,
                                      localTip.hash)
        localTotalDifficulty == TotalOf(tdLocal, localTip.hash)
        st0 == [st EXCEPT !.totalDifficultyByHash = tdLocal]
    IN
    IF ~(remoteTotalDifficulty >= localTotalDifficulty) THEN st0
    ELSE
    LET replay == ReplayFrom(remote, <<>>) IN
    IF ~replay.ok THEN st0
    ELSE
    LET tip == remote[Len(remote)]
        td == getTotalDifficulty(<<>>, MapFromList(remote), tip.hash)
    IN  requestMiningRestart(
          [st0 EXCEPT !.chain = remote,
                      !.unspentTxOuts = replay.utxo,
                      !.blocksByHash = MapFromList(remote),
                      !.totalDifficultyByHash = td,
                      !.chainTipHash = tip.hash])

\* syncFromPeer after its awaits, on the chain the peer answered with
syncFromPeer(st, remote) ==
    IF ~validateChain(remote, difficulty, now) THEN st
    ELSE
    LET remoteTotalDifficulty ==
            SumSeq([k \in DOMAIN remote |-> blockDifficultyWeight(remote[k])])
        localTip == getLatestBlock(st)
        tdLocal == getTotalDifficulty(st.totalDifficultyByHash, st.blocksByHash,
                                      localTip.hash)
        localTotalDifficulty == TotalOf(tdLocal, localTip.hash)
        st0 == [st EXCEPT !.totalDifficultyByHash = tdLocal]
    IN
    IF ~(remoteTotalDifficulty > localTotalDifficulty) THEN st0
    ELSE
    LET replay == ReplayFrom(remote, <<>>) IN
    IF ~replay.ok THEN st0
    ELSE
    LET tip == remote[Len(remote)]
        td == getTotalDifficulty(<<>>, MapFromList(remote), tip.hash)
    IN  requestMiningRestart(
          [st0 EXCEPT !.chain = remote,
                      !.unspentTxOuts = replay.utxo,
                      !.blocksByHash = MapFromList(remote),
                      !.totalDifficultyByHash = td,
                      !.chainTipHash = tip.hash])

-----------------------------------------------------------------------------
(* Inputs: what wallets submit and what peers hold                         *)
(*                                                                         *)
(* Two key pairs A and B, two peers n1 and n2 that mine with the node's    *)
(* difficulty.  n1 mines for A on top of genesis; a wallet of A spends     *)
(* A's first reward.  n2 forks twice (at genesis and at B1) and mines for  *)
(* B; it puts into its blocks whatever the validators let through.        *)

DefaultDifficulty == 2

addrA == sha256Hex("pkA")
addrB == sha256Hex("pkB")

\* the wallet: inputs carrying the public key, then a signature per input
SignedTransaction(refs, outs, key) ==
    LET unsigned == Transaction([k \in DOMAIN refs |->
                                    TxIn(refs[k][1], refs[k][2], "", key)], outs)
    IN  [unsigned EXCEPT !.txIns =
            [k \in DOMAIN refs |->
                [unsigned.txIns[k] EXCEPT !.signature = signTxIn(unsigned, k - 1, key)]]]

reward1A == getCoinbaseTransaction(addrA, 1)

\* A pays B the whole reward
TxPay == SignedTransaction(<<<<reward1A.id, 0>>>>, <<TxOut(addrB, 100)>>, "pkA")
\* A splits the reward into four outputs
TxSplit ==
    SignedTransaction(<<<<reward1A.id, 0>>>>,
                      <<TxOut(addrB, 10), TxOut(addrB, 20), TxOut(addrA, 30),
                        TxOut(addrA, 40)>>, "pkA")
\* the same output spent twice by one transaction
TxTwice ==
    SignedTransaction(<<<<reward1A.id, 0>>, <<reward1A.id, 0>>>>,
                      <<TxOut(addrB, 200)>>, "pkA")
\* no input, one output of amount 0
TxEmpty == Transaction(<<>>, <<TxOut(addrB, 0)>>)
\* TxPay signed with the wrong key
TxForged ==
    [TxPay EXCEPT !.txIns = <<[TxPay.txIns[1] EXCEPT !.signature = signTxIn(TxPay, 0, "pkB")]>>]
\* a coinbase for height 3 whose input names the fourth output of TxSplit
rewardSpending == Transaction(<<TxIn(TxSplit.id, 3, "", "")>>, <<TxOut(addrB, COINBASE_AMOUNT)>>)

SubmittedTxs == {TxPay, TxSplit, TxEmpty, TxForged}

\* a block a peer mined on prev: timestamp 1, the nonce that meets the difficulty
MinedOn(prev, tag, txs) ==
    Sealed(prev.height + 1, 1, prev.hash, [miner |-> tag, transactions |-> txs],
           DefaultDifficulty, DefaultDifficulty)

B1 == MinedOn(createGenesisBlock, "n1", <<reward1A>>)
B2 == MinedOn(B1, "n1", <<getCoinbaseTransaction(addrA, 2), TxSplit>>)
S3 == MinedOn(B2, "n2", <<rewardSpending>>)
E2 == MinedOn(B1, "n2", <<getCoinbaseTransaction(addrB, 2), TxEmpty>>)
E3 == MinedOn(E2, "n2", <<getCoinbaseTransaction(addrB, 3), TxEmpty>>)
D2 == MinedOn(B1, "n2", <<getCoinbaseTransaction(addrB, 2), TxTwice>>)
\* a block on B1 sealed one nonce too early: its hash has one leading zero
W2 == Sealed(2, 1, B1.hash,
             [miner |-> "n2", transactions |-> <<getCoinbaseTransaction(addrB, 2)>>],
             DefaultDifficulty - 1, DefaultDifficulty)

\* a block on B1 from a miner whose clock runs ahead: at Date.now() = 1 its
\* timestamp is one millisecond beyond the tolerance
F2 == Sealed(2, FUTURE_TOLERANCE_MS + 2, B1.hash,
             [miner |-> "n3", transactions |-> <<getCoinbaseTransaction(addrB, 2)>>],
             DefaultDifficulty, DefaultDifficulty)

PeerBlocks == {B1, B2, S3, E2, E3, D2, W2}

\* the chain a peer answers GET /blocks with: the blocks from genesis to b
RECURSIVE PeerChain(_)
PeerChain(b) ==
    IF b.height = 0 THEN <<b>>
    ELSE Append(PeerChain(CHOOSE p \in PeerBlocks \cup {createGenesisBlock} :
                              p.hash = b.prevHash), b)

PeerChains == {PeerChain(b) : b \in PeerBlocks} \cup {<<>>, Tail(PeerChain(B1))}

-----------------------------------------------------------------------------
(* Bounds                                                                  *)

\* blocks held in orphanBlocks, over all keys
MaxOrphans == 2

OrphanCount(o) == Cardinality(UNION {{<<h, i>> : i \in DOMAIN o[h]} : h \in DOMAIN o})

\* bootstrap peers the node registers at when it starts
MaxBootstrap == 2

\* worker threads created in a run
MaxWorkers == 3

\* mining jobs started in a run (each one allocates a cancel word)
MaxJobs == 3

\* the greatest height a worker finds a proof for
MaxMinedHeight == 1

\* worker threads that die of an uncaught error in a run
MaxCrashes == 1

-----------------------------------------------------------------------------
(* Mining driver (CebularzNode) and the worker thread (miner-worker.ts)    *)
(*                                                                         *)
(* A worker is a record: its thread state, the mine commands posted to it  *)
(* and not yet finished (the head is the one mineBlock is executing), the  *)
(* messages it has posted and the node has not yet handled, and whether an *)
(* 'error' event of it is still to be emitted.  this.miningWorker is an    *)
(* index into workers (0 is null) and this.cancelSAB an index into sabs    *)
(* (0 is undefined).  The { ready: true } message a worker posts when it   *)
(* starts matches no branch of the message handler and is left out.        *)

miningAddress == sha256Hex("pkA")

\* TX_PER_BLOCK of const.js: a block holds the coinbase and at most 2 transactions
TX_PER_BLOCK == 2

NoBlock == [height |-> -1]

NewWorker == [state |-> "running", inbox |-> <<>>, outbox |-> <<>>, erroring |-> FALSE,
              exited |-> FALSE]

initMiningWorker(st) ==
    IF st.miningWorker # 0 THEN st
    ELSE [st EXCEPT !.workers = Append(@, NewWorker),
                    !.miningWorker = Len(st.workers) + 1]

\* a disposal that leaves the pool as it is
disposeInvalidTransactionsAtThisMoment_Keeping(st) == st

disposeInvalidTransactionsAtThisMoment(st) ==
    LET Valid(t) == validateTransaction(t, st.unspentTxOuts)
    IN  [st EXCEPT !.transactionPool = SelectSeq(@, Valid)]

\* worker.postMessage: a command posted to a thread that has stopped is lost
postMessage(ws, w, cmd) ==
    IF ws[w].state = "running" THEN [ws EXCEPT ![w].inbox = Append(@, cmd)] ELSE ws

\* a driver that builds every job on the genesis block
startMiningJob_OnGenesis(st) ==
    IF ~st.miner THEN st
    ELSE LET st1 == IF st.miningWorker = 0 THEN initMiningWorker(st) ELSE st IN
         IF st1.miningInProgress THEN st1
         ELSE LET latest == createGenesisBlock
                  coinbaseTx == getCoinbaseTransaction(miningAddress, latest.height + 1)
                  st2 == disposeInvalidTransactionsAtThisMoment(st1)
                  txsToMine == <<coinbaseTx>> \o
                      SubSeq(st2.transactionPool, 1,
                             IF Len(st2.transactionPool) < TX_PER_BLOCK
                             THEN Len(st2.transactionPool) ELSE TX_PER_BLOCK)
                  payload == [prevHash |-> latest.hash, prevHeight |-> latest.height,
                              miner |-> "self", transactions |-> txsToMine,
                              difficulty |-> difficulty]
                  sab == Len(st2.sabs) + 1
              IN  [st2 EXCEPT !.sabs = Append(@, 0),
                              !.cancelSAB = sab,
                              !.workers = postMessage(@, st2.miningWorker,
                                              [cmd |-> "mine", payload |-> payload,
                                               cancelSAB |-> sab]),
                              !.miningInProgress = TRUE]

startMiningJob(st) ==
    IF ~st.miner THEN st
    ELSE LET st1 == IF st.miningWorker = 0 THEN initMiningWorker(st) ELSE st IN
         IF st1.miningInProgress THEN st1
         ELSE LET latest == getLatestBlock(st1)
                  coinbaseTx == getCoinbaseTransaction(miningAddress, latest.height + 1)
                  st2 == disposeInvalidTransactionsAtThisMoment(st1)
                  txsToMine == <<coinbaseTx>> \o
                      SubSeq(st2.transactionPool, 1,
                             IF Len(st2.transactionPool) < TX_PER_BLOCK
                             THEN Len(st2.transactionPool) ELSE TX_PER_BLOCK)
                  payload == [prevHash |-> latest.hash, prevHeight |-> latest.height,
                              miner |-> "self", transactions |-> txsToMine,
                              difficulty |-> difficulty]
                  sab == Len(st2.sabs) + 1
              IN  [st2 EXCEPT !.sabs = Append(@, 0),
                              !.cancelSAB = sab,
                              !.workers = postMessage(@, st2.miningWorker,
                                              [cmd |-> "mine", payload |-> payload,
                                               cancelSAB |-> sab]),
                              !.miningInProgress = TRUE]

performMiningRestart(st) ==
    IF st.miningInProgress /\ st.cancelSAB # 0
    THEN [st EXCEPT !.sabs[st.cancelSAB] = 1, !.miningRestartPending = TRUE]
    ELSE IF ~st.miningInProgress THEN startMiningJob(st)
    ELSE st

enableMining(st) ==
    IF st.miner /\ st.miningInProgress THEN st
    ELSE startMiningJob(initMiningWorker([st EXCEPT !.miner = TRUE]))

\* worker.terminate(): the thread stops, with the command it was executing
terminate(ws, w) ==
    IF ws[w].state = "running"
    THEN [ws EXCEPT ![w].state = "terminated", ![w].inbox = <<>>]
    ELSE ws

disableMining(st) ==
    IF ~st.miner /\ ~st.miningInProgress THEN st
    ELSE [st EXCEPT !.miner = FALSE,
                    !.sabs = IF st.cancelSAB # 0 THEN [@ EXCEPT ![st.cancelSAB] = 1] ELSE @,
                    !.workers = IF st.miningWorker # 0 THEN terminate(@, st.miningWorker)
                                ELSE @,
                    !.miningWorker = 0,
                    !.miningInProgress = FALSE,
                    !.miningRestartPending = FALSE]

\* the proof-of-work loop of mineBlock: the first nonce whose hash meets the difficulty
mineBlock(payload, dateNow) ==
    LET Candidate(nonce) ==
            Sealed(payload.prevHeight + 1, dateNow, payload.prevHash,
                   [miner |-> payload.miner, transactions |-> payload.transactions],
                   nonce, payload.difficulty)
        Meets(nonce) == meetsDifficulty(Candidate(nonce).hash, payload.difficulty)
    IN  Candidate(CHOOSE nonce \in 0..64 :
                      Meets(nonce) /\ \A m \in 0..(nonce - 1) : ~Meets(m))

\* miningWorker.on('message')
onMessage(st, msg) ==
    IF msg.ok = "true" /\ msg.block # NoBlock
    THEN LET st1 == handleReceivedBlock(st, msg.block)
         IN  startMiningJob([st1 EXCEPT !.miningInProgress = FALSE,
                                        !.miningRestartPending = FALSE])
    ELSE IF msg.canceled
    THEN IF st.miningRestartPending
         THEN startMiningJob([st EXCEPT !.miningInProgress = FALSE,
                                        !.miningRestartPending = FALSE])
         ELSE [st EXCEPT !.miningInProgress = FALSE]
    ELSE IF msg.ok = "false"
    THEN [st EXCEPT !.miningInProgress = FALSE, !.retryTimers = @ + 1]
    ELSE st

\* miningWorker.on('error')
onError(st) ==
    [st EXCEPT !.miningWorker = 0, !.miningInProgress = FALSE, !.respawnTimers = @ + 1]

\* miningWorker.on('exit')
onExit(st) ==
    [st EXCEPT !.miningWorker = 0, !.miningInProgress = FALSE,
               !.respawnTimers = IF st.miner THEN @ + 1 ELSE @]

-----------------------------------------------------------------------------
(* State after construction                                                *)

\* no call of mineBlock is followed
NoSearch == [pc |-> "none", firstProof |-> -1, nonce |-> 0, attempts |-> 0, flag |-> 0,
             unread |-> 0, sinceSet |-> 0, result |-> "none"]

\* no POST /blocks/new has been handled
NoPush == [block |-> NoBlock, sender |-> "", previousPeers |-> <<>>, sent |-> {}]

\* a node that is run without a network around it
NoNetwork == [peersOf |-> <<>>, inflight |-> {}, sent |-> {}, handled |-> {}, origin |-> ""]

\* no setTimeout has been called: nothing pending, this.restartDebounceTimer = null
\* (history: the moment of the last setTimeout, the number of setTimeout calls
\* since the last callback ran, the number of callbacks run, and the number of
\* setTimeout calls that preceded the last callback)
NoTimeouts == [pending |-> {}, handle |-> 0, created |-> 0, lastRequest |-> 0,
               burst |-> 0, restarts |-> 0, lastBurst |-> 0]

\* a node run alone, between whose handlers no time is measured
Alone == network = NoNetwork /\ timeouts = NoTimeouts

\* new CebularzNode({ miner: cfgMiner, difficulty: cfgDifficulty })
Configured(cfgMiner, cfgDifficulty) ==
    /\ miner = cfgMiner
    /\ difficulty = cfgDifficulty
    /\ chain = <<createGenesisBlock>>
    /\ blocksByHash = <<createGenesisBlock>>
    /\ orphanBlocks = <<>>
    /\ totalDifficultyByHash =
          FnSet(<<>>, createGenesisBlock.hash, blockDifficultyWeight(createGenesisBlock))
    /\ chainTipHash = createGenesisBlock.hash
    /\ unspentTxOuts = <<>>
    /\ transactionPool = <<>>
    /\ miningWorker = 0
    /\ cancelSAB = 0
    /\ miningInProgress = FALSE
    /\ miningRestartPending = FALSE
    /\ restartDebounceTimer = FALSE
    /\ workers = <<>>
    /\ sabs = <<>>
    /\ respawnTimers = 0
    /\ retryTimers = 0
    /\ listening = FALSE
    /\ registering = 0
    /\ now = 1
    /\ lastReorg = NoReorg
    /\ rejected = {}
    /\ markedJobs = {}
    /\ peers = {}
    /\ lastPush = NoPush

\* a node constructed without a difficulty in its configuration
Constructed(cfgMiner) == Configured(cfgMiner, DefaultDifficulty)

\* a node constructed with miner: false
Init == Constructed(FALSE) /\ search = NoSearch /\ Alone

\* the fields a handler leaves
Install(st) ==
    /\ chain' = st.chain
    /\ blocksByHash' = st.blocksByHash
    /\ orphanBlocks' = st.orphanBlocks
    /\ totalDifficultyByHash' = st.totalDifficultyByHash
    /\ chainTipHash' = st.chainTipHash
    /\ unspentTxOuts' = st.unspentTxOuts
    /\ transactionPool' = st.transactionPool
    /\ restartDebounceTimer' = st.restartDebounceTimer
    /\ lastReorg' = st.lastReorg
    /\ miner' = st.miner
    /\ miningWorker' = st.miningWorker
    /\ cancelSAB' = st.cancelSAB
    /\ miningInProgress' = st.miningInProgress
    /\ miningRestartPending' = st.miningRestartPending
    /\ workers' = st.workers
    /\ sabs' = st.sabs
    /\ respawnTimers' = st.respawnTimers
    /\ retryTimers' = st.retryTimers

-----------------------------------------------------------------------------
(* Handlers of the HTTP endpoints and of start()                           *)

\* the workers and cancel words a run may create
WithinBounds(st) == Len(st.workers) <= MaxWorkers /\ Len(st.sabs) <= MaxJobs

\* start(): listen, registerAt every bootstrap peer, and mine if miner is set
StartNode ==
    /\ ~listening
    /\ listening' = TRUE
    /\ registering' = MaxBootstrap
    /\ Install(IF miner THEN startMiningJob(initMiningWorker(Node)) ELSE Node)
    /\ UNCHANGED <<difficulty, now, rejected, markedJobs, search, gossipVars, timeouts>>

\* POST /blocks/new with a previousPeers list that does not name this node
PostBlocksNew(block) ==
    /\ listening
    /\ LET st == handleReceivedBlock(Node, block) IN
        /\ OrphanCount(st.orphanBlocks) <= MaxOrphans
        /\ Install(st)
    /\ UNCHANGED <<difficulty, listening, registering, now, rejected, markedJobs, search, gossipVars, timeouts>>

\* POST /transactions
PostTransactions(tx) ==
    /\ listening
    /\ tx.id # ""
    /\ Install(addToTransactionPool(Node, tx))
    /\ UNCHANGED <<difficulty, listening, registering, now, rejected, markedJobs, search, gossipVars, timeouts>>

\* registerAt, from the peer's answer to GET /blocks on: syncFromPeer
SyncFromPeer(remote) ==
    /\ registering > 0
    /\ registering' = registering - 1
    /\ Install(syncFromPeer(Node, remote))
    /\ UNCHANGED <<difficulty, listening, now, rejected, markedJobs, search, gossipVars, timeouts>>

Next ==
    \/ StartNode
    \/ \E block \in PeerBlocks : PostBlocksNew(block)
    \/ \E tx \in SubmittedTxs : PostTransactions(tx)
    \/ \E remote \in PeerChains : SyncFromPeer(remote)

Spec == Init /\ [][Next]_vars

-----------------------------------------------------------------------------
(* A node whose wall clock advances between the handlers                   *)

\* the greatest value Date.now() takes in a run
MaxNow == 2

\* blocks delivered while the clock advances
ClockPeerBlocks == {B1, B2, D2, W2, F2}

\* a millisecond passes
Tick ==
    /\ now < MaxNow
    /\ now' = now + 1
    /\ UNCHANGED <<miner, difficulty, coreVars, driverVars, restartDebounceTimer,
                   envVars, listening, registering, lastReorg, rejected, markedJobs, search, gossipVars, timeouts>>

\* POST /blocks/new, the rejections of the handler added to the history
PostBlocksNewNoted(block) ==
    /\ listening
    /\ LET st == handleReceivedBlock(Node, block) IN
        /\ OrphanCount(st.orphanBlocks) <= MaxOrphans
        /\ Install(st)
        /\ rejected' = rejected \cup st.rejected
    /\ UNCHANGED <<difficulty, listening, registering, now, markedJobs, search, gossipVars, timeouts>>

ClockNext ==
    \/ StartNode
    \/ Tick
    \/ \E block \in ClockPeerBlocks : PostBlocksNewNoted(block)
    \/ \E tx \in SubmittedTxs : PostTransactions(tx)

ClockSpec == Init /\ [][ClockNext]_vars

-----------------------------------------------------------------------------
(* A node that mines: the endpoints of the driver, its timers, the worker  *)
(* thread and the events of the worker                                     *)

\* a node constructed with miner: true
MiningInit == Constructed(TRUE) /\ search = NoSearch /\ Alone

\* a handler of the driver that leaves the node st and the history marked
StepMarking(st, marked) ==
    /\ WithinBounds(st)
    /\ Install(st)
    /\ markedJobs' = marked
    /\ UNCHANGED <<difficulty, listening, registering, now, rejected, search, gossipVars, timeouts>>

Step(st) == StepMarking(st, markedJobs)

\* the history after the timer's performMiningRestart: the running job is marked
MarkedByRestart ==
    IF miningInProgress /\ cancelSAB # 0 THEN markedJobs \cup {cancelSAB} ELSE markedJobs

\* POST /mining/start
MiningStart == listening /\ Step(enableMining(Node))

\* POST /mining/stop
MiningStop == listening /\ StepMarking(disableMining(Node), {})

\* POST /mining/restart
MiningRestart == listening /\ Step(performMiningRestart(Node))

\* the callback of restartDebounceTimer
DebounceFire ==
    /\ restartDebounceTimer
    /\ StepMarking([performMiningRestart(Node) EXCEPT !.restartDebounceTimer = FALSE],
                   MarkedByRestart)

\* the 1000 ms callback set by the 'error' and 'exit' handlers
RespawnTimerFire ==
    /\ respawnTimers > 0
    /\ Step(startMiningJob(initMiningWorker([Node EXCEPT !.respawnTimers = @ - 1])))

Executing(w) == workers[w].state = "running" /\ workers[w].inbox # <<>>

Reply(w, msg) ==
    /\ workers' = [workers EXCEPT ![w].inbox = Tail(@), ![w].outbox = Append(@, msg)]
    /\ UNCHANGED <<miner, difficulty, coreVars, driverVars, restartDebounceTimer, sabs,
                   respawnTimers, retryTimers, listening, registering, now, lastReorg,
                   rejected, markedJobs, search, gossipVars, timeouts>>

\* the worker finds a nonce and posts { ok: true, block }.  mineBlock returns an
\* error only for a prevHash that is not 64 characters long or a difficulty
\* outside 0..64, and startMiningJob sends neither, so no { ok: false } is posted
WorkerFound(w) ==
    /\ Executing(w)
    /\ Head(workers[w].inbox).payload.prevHeight < MaxMinedHeight
    /\ Reply(w, [ok |-> "true", canceled |-> FALSE,
                 block |-> mineBlock(Head(workers[w].inbox).payload, now),
                 job |-> Head(workers[w].inbox).cancelSAB])

\* the worker reads 1 in the cancel word at a 4096-attempt boundary.  How many
\* attempts a search takes is not modelled, so a search whose cancel word is set
\* may end either way
WorkerCanceled(w) ==
    /\ Executing(w)
    /\ sabs[Head(workers[w].inbox).cancelSAB] = 1
    /\ Reply(w, [ok |-> "undefined", canceled |-> TRUE, block |-> NoBlock,
                 job |-> Head(workers[w].inbox).cancelSAB])

\* the thread dies of an uncaught error
WorkerCrash(w) ==
    /\ workers[w].state = "running"
    /\ Cardinality({v \in DOMAIN workers : workers[v].state = "crashed"}) < MaxCrashes
    /\ workers' = [workers EXCEPT ![w].state = "crashed", ![w].inbox = <<>>,
                                  ![w].erroring = TRUE]
    /\ UNCHANGED <<miner, difficulty, coreVars, driverVars, restartDebounceTimer, sabs,
                   respawnTimers, retryTimers, listening, registering, now, lastReorg,
                   rejected, markedJobs, search, gossipVars, timeouts>>

\* the 'message' event of worker w
HandleMessage(w) ==
    /\ ~workers[w].exited
    /\ workers[w].outbox # <<>>
    /\ LET st == onMessage([Node EXCEPT !.workers[w].outbox = Tail(@)],
                           Head(workers[w].outbox))
       IN  /\ OrphanCount(st.orphanBlocks) <= MaxOrphans
           /\ StepMarking(st, markedJobs \ {Head(workers[w].outbox).job})

\* the 'error' event of worker w, after the messages it had posted
HandleError(w) ==
    /\ workers[w].erroring
    /\ workers[w].outbox = <<>>
    /\ Step(onError([Node EXCEPT !.workers[w].erroring = FALSE]))

\* the 'exit' event of worker w, after its messages and its 'error' event
HandleExit(w) ==
    /\ workers[w].state \in {"terminated", "crashed"}
    /\ ~workers[w].exited
    /\ ~workers[w].erroring
    /\ workers[w].outbox = <<>>
    /\ Step(onExit([Node EXCEPT !.workers[w].exited = TRUE]))

\* what a peer or a wallet sends to the mining node
MiningPeerBlocks == {B1}
MiningSubmittedTxs == {TxPay}

MiningNext ==
    \/ StartNode
    \/ MiningStart
    \/ MiningStop
    \/ MiningRestart
    \/ DebounceFire
    \/ RespawnTimerFire
    \/ \E w \in DOMAIN workers : WorkerFound(w)
    \/ \E w \in DOMAIN workers : WorkerCanceled(w)
    \/ \E w \in DOMAIN workers : WorkerCrash(w)
    \/ \E w \in DOMAIN workers : HandleMessage(w)
    \/ \E w \in DOMAIN workers : HandleError(w)
    \/ \E w \in DOMAIN workers : HandleExit(w)
    \/ \E block \in MiningPeerBlocks : PostBlocksNew(block)
    \/ \E tx \in MiningSubmittedTxs : PostTransactions(tx)

MiningSpec == MiningInit /\ [][MiningNext]_vars

-----------------------------------------------------------------------------
(* The mining node under the scheduling of the event loop and of the       *)
(* worker thread: a timer that is set fires, a 'message' or 'exit' event   *)
(* that is queued is delivered, and the loop of a worker that keeps        *)
(* running comes to its end: at the nonce that meets the difficulty, where *)
(* the run has one, or at a poll of a cancel word that is set              *)

\* the callback of restartDebounceTimer can run within the bounds
DebounceCanFire ==
    restartDebounceTimer /\ WithinBounds(performMiningRestart(Node))

\* a respawn callback can run within the bounds
RespawnCanFire ==
    respawnTimers > 0 /\ WithinBounds(startMiningJob(initMiningWorker(Node)))

\* a message of worker w is queued for its 'message' handler
MessageWaits(w) ==
    w \in DOMAIN workers /\ ~workers[w].exited /\ workers[w].outbox # <<>>

\* the node after the 'message' handler of worker w has run
AfterMessage(w) ==
    onMessage([Node EXCEPT !.workers[w].outbox = Tail(@)], Head(workers[w].outbox))

\* the 'message' handler of worker w can run within the bounds
MessageCanBeHandled(w) ==
    /\ MessageWaits(w)
    /\ OrphanCount(AfterMessage(w).orphanBlocks) <= MaxOrphans
    /\ WithinBounds(AfterMessage(w))

\* a callback or an event is due that the bounds of the run keep from running
OutOfBudget ==
    \/ restartDebounceTimer /\ ~DebounceCanFire
    \/ respawnTimers > 0 /\ ~RespawnCanFire
    \/ \E w \in DOMAIN workers : MessageWaits(w) /\ ~MessageCanBeHandled(w)

\* worker w is searching and the run has a nonce for it to find
CanFind(w) ==
    /\ w \in DOMAIN workers
    /\ Executing(w)
    /\ Head(workers[w].inbox).payload.prevHeight < MaxMinedHeight

NonceFound(w) == w \in DOMAIN workers /\ WorkerFound(w)

\* the worker polls its cancel word
CancelPolled(w) == w \in DOMAIN workers /\ WorkerCanceled(w)

MessageEvent(w) == w \in DOMAIN workers /\ HandleMessage(w)

ExitEvent(w) == w \in DOMAIN workers /\ HandleExit(w)

\* the mining node whose worker threads do not die of an error
SteadyNext ==
    \/ StartNode
    \/ MiningStart
    \/ MiningStop
    \/ MiningRestart
    \/ DebounceFire
    \/ RespawnTimerFire
    \/ \E w \in DOMAIN workers : WorkerFound(w)
    \/ \E w \in DOMAIN workers : WorkerCanceled(w)
    \/ \E w \in DOMAIN workers : HandleMessage(w)
    \/ \E w \in DOMAIN workers : HandleExit(w)
    \/ \E block \in MiningPeerBlocks : PostBlocksNew(block)
    \/ \E tx \in MiningSubmittedTxs : PostTransactions(tx)

\* weak fairness of the two timers, of the 'message' events and of the search
\* that finds its nonce is written out, []<>~(enabled) \/ []<><<A>>_vars, with
\* the condition under which the step is taken in the place of ENABLED <<A>>_vars
FairMiningSpec ==
    /\ MiningInit
    /\ [][SteadyNext]_vars
    /\ ([]<>~DebounceCanFire \/ []<><<DebounceFire>>_vars)
    /\ ([]<>~RespawnCanFire \/ []<><<RespawnTimerFire>>_vars)
    /\ \A w \in 1..MaxWorkers :
          /\ WF_vars(CancelPolled(w))
          /\ ([]<>~CanFind(w) \/ []<><<NonceFound(w)>>_vars)
          /\ WF_vars(ExitEvent(w))
          /\ ([]<>~MessageCanBeHandled(w) \/ []<><<MessageEvent(w)>>_vars)

-----------------------------------------------------------------------------
(* A mining node whose mempool fills while its chain grows: peers push B1  *)
(* and B2, wallets spend the outputs the two blocks create                 *)

reward2A == getCoinbaseTransaction(addrA, 2)

\* A pays B the reward of B2
TxPay2 == SignedTransaction(<<<<reward2A.id, 0>>>>, <<TxOut(addrB, 100)>>, "pkA")
\* B returns the first output of TxSplit to A
TxB10 == SignedTransaction(<<<<TxSplit.id, 0>>>>, <<TxOut(addrA, 10)>>, "pkB")
\* A pays B the third output of TxSplit
TxA30 == SignedTransaction(<<<<TxSplit.id, 2>>>>, <<TxOut(addrB, 30)>>, "pkA")

AssemblyPeerBlocks == {B1, B2}
AssemblySubmittedTxs == {TxPay, TxTwice, TxPay2, TxB10, TxA30}

\* the worker finds a nonce, whatever the height of the block it works on
WorkerFoundAtAnyHeight(w) ==
    /\ Executing(w)
    /\ Reply(w, [ok |-> "true", canceled |-> FALSE,
                 block |-> mineBlock(Head(workers[w].inbox).payload, now),
                 job |-> Head(workers[w].inbox).cancelSAB])

\* the mining node without the stop and start endpoints and without the death
\* of a worker
AssemblyNext ==
    \/ StartNode
    \/ MiningRestart
    \/ DebounceFire
    \/ \E w \in DOMAIN workers : WorkerFoundAtAnyHeight(w)
    \/ \E w \in DOMAIN workers : WorkerCanceled(w)
    \/ \E w \in DOMAIN workers : HandleMessage(w)
    \/ \E block \in AssemblyPeerBlocks : PostBlocksNew(block)
    \/ \E tx \in AssemblySubmittedTxs : PostTransactions(tx)

AssemblySpec == MiningInit /\ [][AssemblyNext]_vars

-----------------------------------------------------------------------------
(* A mining node started with --difficulty 0, and peers that mine with the *)
(* same difficulty                                                         *)

\* a block a peer mined on prev with difficulty 0: the first nonce does
MinedFreelyOn(prev, tag, txs) ==
    Sealed(prev.height + 1, 1, prev.hash, [miner |-> tag, transactions |-> txs], 0, 0)

Z1 == MinedFreelyOn(createGenesisBlock, "n1", <<getCoinbaseTransaction(addrB, 1)>>)
Z2 == MinedFreelyOn(Z1, "n1", <<getCoinbaseTransaction(addrB, 2)>>)

FreePeerBlocks == {Z1, Z2}
FreeSubmittedTxs == {TxEmpty}

FreeMiningInit == Configured(TRUE, 0) /\ search = NoSearch /\ Alone

FreeMiningNext ==
    \/ StartNode
    \/ Tick
    \/ MiningRestart
    \/ DebounceFire
    \/ \E w \in DOMAIN workers : WorkerFoundAtAnyHeight(w)
    \/ \E w \in DOMAIN workers : WorkerCanceled(w)
    \/ \E w \in DOMAIN workers : HandleMessage(w)
    \/ \E block \in FreePeerBlocks : PostBlocksNew(block)
    \/ \E tx \in FreeSubmittedTxs : PostTransactions(tx)

FreeMiningSpec == FreeMiningInit /\ [][FreeMiningNext]_vars

-----------------------------------------------------------------------------
(* The worker thread inside mineBlock.  Which nonce is the first whose hash *)
(* meets the difficulty is an input of the search; the node stores 1 in the *)
(* cancel word at a moment of its own choosing                             *)

\* the mask of (attempts & 0xFFF)
CancelPollMask == 4095

\* a loop that looks at the cancel word half as often
cancelPollDue_Sparse(attempts) == attempts % (2 * (CancelPollMask + 1)) = 0

\* (attempts & 0xFFF) === 0
cancelPollDue(attempts) == attempts % (CancelPollMask + 1) = 0

\* iterations of the while loop that are followed
MaxAttempts == 8200

\* no nonce below MaxAttempts gives a hash that meets the difficulty
NoProof == -1

\* the least nonce whose hash meets the difficulty
FirstProofs == {NoProof, 0, 100, CancelPollMask, CancelPollMask + 1, 5000}

\* the values of attempts at which the node's store of 1 may land
CancelMoments == {0, 1, 2000, CancelPollMask, CancelPollMask + 1, CancelPollMask + 2, 8191}

\* mineBlock has been called with a cancel word that holds 0
SearchInit ==
    /\ Constructed(TRUE)
    /\ \E p \in FirstProofs : search = [NoSearch EXCEPT !.pc = "loop", !.firstProof = p]
    /\ Alone

\* one iteration of while (true): hash, attempts++, return the block if the hash
\* meets the difficulty, else nonce++ and, when the poll is due, read the cancel
\* word and return canceled if it holds 1
SearchAttempt ==
    /\ search.pc = "loop"
    /\ search.attempts < MaxAttempts
    /\ LET attempts == search.attempts + 1
           found == search.nonce = search.firstProof
           polled == ~found /\ cancelPollDue(attempts)
           canceled == polled /\ search.flag = 1
       IN  search' = [search EXCEPT
                         !.attempts = attempts,
                         !.nonce = IF found THEN @ ELSE @ + 1,
                         !.unread = IF polled THEN 0 ELSE @ + 1,
                         !.sinceSet = IF search.flag = 1 THEN @ + 1 ELSE @,
                         !.pc = IF found \/ canceled THEN "returned" ELSE "loop",
                         !.result = IF found THEN "block"
                                    ELSE IF canceled THEN "canceled" ELSE @]
    /\ UNCHANGED <<miner, difficulty, coreVars, driverVars, restartDebounceTimer,
                   envVars, listening, registering, now, lastReorg, rejected, markedJobs,
                   gossipVars, timeouts>>

\* Atomics.store(new Int32Array(this.cancelSAB), 0, 1) on the main thread
SetCancel ==
    /\ search.pc = "loop"
    /\ search.flag = 0
    /\ search.attempts \in CancelMoments
    /\ search' = [search EXCEPT !.flag = 1]
    /\ UNCHANGED <<miner, difficulty, coreVars, driverVars, restartDebounceTimer,
                   envVars, listening, registering, now, lastReorg, rejected, markedJobs,
                   gossipVars, timeouts>>

SearchNext == SearchAttempt \/ SetCancel

SearchSpec == SearchInit /\ [][SearchNext]_vars

-----------------------------------------------------------------------------
(* A node with peers: registrations and block pushes that carry a sender   *)
(* and a trail of the nodes the block has visited                          *)

\* `http://localhost:${this.port}`
myUrl == "self"

\* the nodes of the network, this one among them
Urls == {myUrl, "n1", "n2", "n3"}

\* req.body.sender: a url, or none
Senders == {"", "n2"}

\* req.body.previousPeers
Trails == {<<>>, <<"n1">>, <<"n1", myUrl>>}

\* blocks pushed to the node: B1 and B2 extend the chain, W2 fails the proof of
\* work, E3 arrives without its parent
GossipBlocks == {B1, B2, W2, E3}

\* a broadcast that pushes to every peer
broadcastBlock_ToEveryPeer(ps, block, excludeSender, previousPeers) ==
    {[to |-> peer, block |-> block, sender |-> myUrl,
      previousPeers |-> Append(previousPeers, myUrl)] : peer \in ps}

\* the POST /blocks/new requests broadcastBlock sends
broadcastBlock(ps, block, excludeSender, previousPeers) ==
    LET chainPeers == Append(previousPeers, myUrl)
        Skipped(peer) == \/ excludeSender # "" /\ peer = excludeSender
                         \/ peer \in Range(chainPeers)
    IN  {[to |-> peer, block |-> block, sender |-> myUrl, previousPeers |-> chainPeers] :
            peer \in {p \in ps : ~Skipped(p)}}

\* POST /register with { url }
PostRegister(url) ==
    /\ listening
    /\ peers' = peers \cup {url}
    /\ UNCHANGED <<miner, difficulty, coreVars, driverVars, restartDebounceTimer,
                   envVars, listening, registering, now, lastReorg, rejected, markedJobs,
                   search, lastPush, network, timeouts>>

\* POST /deregister with { url }
PostDeregister(url) ==
    /\ listening
    /\ peers' = peers \ {url}
    /\ UNCHANGED <<miner, difficulty, coreVars, driverVars, restartDebounceTimer,
                   envVars, listening, registering, now, lastReorg, rejected, markedJobs,
                   search, lastPush, network, timeouts>>

\* POST /blocks/new with { block, sender, previousPeers }
PostBlocksNewFrom(block, sender, previousPeers) ==
    /\ listening
    /\ IF myUrl \in Range(previousPeers)
       THEN /\ Install(Node)
            /\ lastPush' = [block |-> block, sender |-> sender,
                            previousPeers |-> previousPeers, sent |-> {}]
       ELSE LET st == handleReceivedBlock(Node, block) IN
            /\ OrphanCount(st.orphanBlocks) <= MaxOrphans
            /\ Install(st)
            /\ lastPush' = [block |-> block, sender |-> sender,
                            previousPeers |-> previousPeers,
                            sent |-> broadcastBlock(peers, block, sender, previousPeers)]
    /\ UNCHANGED <<difficulty, listening, registering, now, rejected, markedJobs, search,
                   peers, network, timeouts>>

GossipNext ==
    \/ StartNode
    \/ \E url \in Urls : PostRegister(url)
    \/ \E url \in Urls : PostDeregister(url)
    \/ \E block \in GossipBlocks, sender \in Senders, previousPeers \in Trails :
          PostBlocksNewFrom(block, sender, previousPeers)

GossipSpec == Init /\ [][GossipNext]_vars

-----------------------------------------------------------------------------
(* A mining node and its clock: the handlers that request a restart arm    *)
(* the debounce timer with setTimeout, time passes, and the timer's        *)
(* callback runs when the timer is due                                     *)

\* RESTART_DEBOUNCE_MS of const.js
RESTART_DEBOUNCE_MS == 250

\* the greatest value Date.now() takes in a run with timers
MaxTime == 600

\* the milliseconds that pass between two events of the node
Delays == {100, 250}

\* the transactions wallets post while the clock runs
TimedSubmittedTxs == {TxPay, TxPay2}

\* a request that arms a new timer and leaves the pending one
requestMiningRestartAt_NoClear(tm, t) ==
    [tm EXCEPT !.pending = @ \cup {[id |-> tm.created + 1, due |-> t + RESTART_DEBOUNCE_MS]},
               !.handle = tm.created + 1,
               !.created = @ + 1,
               !.lastRequest = t,
               !.burst = @ + 1]

\* requestMiningRestart of a mining node at the moment t, on the timers:
\* clearTimeout(this.restartDebounceTimer) if it is set, then
\* this.restartDebounceTimer = setTimeout(callback, RESTART_DEBOUNCE_MS)
requestMiningRestartAt(tm, t) ==
    [tm EXCEPT !.pending = {x \in @ : x.id # tm.handle}
                              \cup {[id |-> tm.created + 1, due |-> t + RESTART_DEBOUNCE_MS]},
               !.handle = tm.created + 1,
               !.created = @ + 1,
               !.lastRequest = t,
               !.burst = @ + 1]

\* the node as a handler finds it, the timer field read as null, so that the
\* field is set in what the handler leaves exactly if the handler has called
\* setTimeout
Unarmed == [Node EXCEPT !.restartDebounceTimer = FALSE]

\* a handler that leaves the node st: if it has requested a restart, the timer
\* is armed at this moment
TimedStep(st) ==
    /\ WithinBounds(st)
    /\ Install([st EXCEPT !.restartDebounceTimer = @ \/ restartDebounceTimer])
    /\ timeouts' = IF st.restartDebounceTimer THEN requestMiningRestartAt(timeouts, now)
                   ELSE timeouts
    /\ UNCHANGED <<difficulty, listening, registering, now, rejected, markedJobs, search,
                   gossipVars>>

\* start(), at a moment
TimedStartNode ==
    /\ ~listening
    /\ listening' = TRUE
    /\ registering' = MaxBootstrap
    /\ Install(IF miner THEN startMiningJob(initMiningWorker(Node)) ELSE Node)
    /\ UNCHANGED <<difficulty, now, rejected, markedJobs, search, gossipVars, timeouts>>

\* POST /blocks/new, at a moment
TimedPostBlocksNew(block) ==
    /\ listening
    /\ OrphanCount(handleReceivedBlock(Unarmed, block).orphanBlocks) <= MaxOrphans
    /\ TimedStep(handleReceivedBlock(Unarmed, block))

\* POST /transactions, at a moment
TimedPostTransactions(tx) ==
    /\ listening
    /\ TimedStep(addToTransactionPool(Unarmed, tx))

\* POST /mining/stop, at a moment
TimedMiningStop == listening /\ TimedStep(disableMining(Unarmed))

\* POST /mining/start, at a moment
TimedMiningStart == listening /\ TimedStep(enableMining(Unarmed))

\* the callback of the timer x, run when x is due: performMiningRestart(), then
\* this.restartDebounceTimer = null
TimerFires(x) ==
    /\ x \in timeouts.pending
    /\ x.due <= now
    /\ WithinBounds(performMiningRestart(Node))
    /\ Install([performMiningRestart(Node) EXCEPT !.restartDebounceTimer = FALSE])
    /\ markedJobs' = MarkedByRestart
    /\ timeouts' = [timeouts EXCEPT !.pending = @ \ {x}, !.handle = 0,
                                    !.restarts = @ + 1, !.lastBurst = timeouts.burst,
                                    !.burst = 0]
    /\ UNCHANGED <<difficulty, listening, registering, now, rejected, search, gossipVars>>

\* d milliseconds pass, and no timer that is pending becomes overdue: the event
\* loop runs the callback of a timer when it is due
TimePasses(d) ==
    /\ now + d <= MaxTime
    /\ \A x \in timeouts.pending : now + d <= x.due
    /\ now' = now + d
    /\ UNCHANGED <<miner, difficulty, coreVars, driverVars, restartDebounceTimer,
                   envVars, listening, registering, lastReorg, rejected, markedJobs,
                   search, gossipVars, timeouts>>

TimedNext ==
    \/ TimedStartNode
    \/ \E d \in Delays : TimePasses(d)
    \/ \E block \in AssemblyPeerBlocks : TimedPostBlocksNew(block)
    \/ \E tx \in TimedSubmittedTxs : TimedPostTransactions(tx)
    \/ TimedMiningStop
    \/ TimedMiningStart
    \/ \E x \in timeouts.pending : TimerFires(x)

TimedSpec == MiningInit /\ [][TimedNext]_vars

-----------------------------------------------------------------------------
(* A network of nodes that gossip one block: a node other than this one    *)
(* mines it and every node that is pushed the block pushes it on.  This    *)
(* node is the node of the rest of the module; of the other nodes the      *)
(* peer set is kept, the part of their state that their pushes read        *)

\* the nodes of the network, by the url each builds from its port
NetNodes == {myUrl, "n1", "n2"}

\* the nodes whose peer set is part of the network
OtherNodes == NetNodes \ {myUrl}

\* the block that is gossiped
GossipedBlock == B1

\* this.peers of the node url
PeersOf(url) == IF url = myUrl THEN peers ELSE network.peersOf[url]

\* a broadcast that leaves its own url out of the trail it sends
broadcastBlockFrom_NoTrail(url, ps, block, excludeSender, previousPeers) ==
    LET chainPeers == previousPeers
        Skipped(peer) == \/ excludeSender # "" /\ peer = excludeSender
                         \/ peer \in Range(chainPeers)
    IN  {[to |-> peer, block |-> block, sender |-> url, previousPeers |-> chainPeers] :
            peer \in {p \in ps : ~Skipped(p)}}

\* broadcastBlock run by the node whose port gives url
broadcastBlockFrom(url, ps, block, excludeSender, previousPeers) ==
    LET chainPeers == Append(previousPeers, url)
        Skipped(peer) == \/ excludeSender # "" /\ peer = excludeSender
                         \/ peer \in Range(chainPeers)
    IN  {[to |-> peer, block |-> block, sender |-> url, previousPeers |-> chainPeers] :
            peer \in {p \in ps : ~Skipped(p)}}

\* the network after the node url has sent the pushes
Pushed(net, pushes) ==
    [net EXCEPT !.inflight = @ \cup pushes, !.sent = @ \cup pushes]

\* the 'message' handler of a node other than this one, as far as the network
\* sees it: broadcastBlock(block, undefined, [])
MinedBy(url) ==
    /\ network.origin = ""
    /\ network' = Pushed([network EXCEPT !.origin = url],
                         broadcastBlockFrom(url, PeersOf(url), GossipedBlock, "", <<>>))
    /\ UNCHANGED <<miner, difficulty, coreVars, driverVars, restartDebounceTimer,
                   envVars, listening, registering, now, lastReorg, rejected, markedJobs,
                   search, peers, lastPush, timeouts>>

\* POST /blocks/new at this node, the push m taken from the network
ReceiveHere(m) ==
    /\ m \in network.inflight
    /\ m.to = myUrl
    /\ LET arrived == [network EXCEPT !.inflight = @ \ {m}] IN
       IF ~listening
       THEN \* fetch fails, the sender logs the error
            /\ network' = arrived
            /\ Install(Node)
            /\ UNCHANGED lastPush
       ELSE IF myUrl \in Range(m.previousPeers)
       THEN /\ network' = [arrived EXCEPT !.handled = @ \cup {m}]
            /\ Install(Node)
            /\ lastPush' = [block |-> m.block, sender |-> m.sender,
                            previousPeers |-> m.previousPeers, sent |-> {}]
       ELSE LET st == handleReceivedBlock(Node, m.block)
                pushes == broadcastBlockFrom(myUrl, peers, m.block, m.sender, m.previousPeers)
            IN  /\ Install(st)
                /\ network' = Pushed([arrived EXCEPT !.handled = @ \cup {m}], pushes)
                /\ lastPush' = [block |-> m.block, sender |-> m.sender,
                                previousPeers |-> m.previousPeers, sent |-> pushes]
    /\ UNCHANGED <<difficulty, listening, registering, now, rejected, markedJobs, search,
                   peers, timeouts>>

\* POST /blocks/new at another node, the push m taken from the network
ReceiveThere(m) ==
    /\ m \in network.inflight
    /\ m.to \in OtherNodes
    /\ LET arrived == [network EXCEPT !.inflight = @ \ {m}, !.handled = @ \cup {m}] IN
       network' = IF m.to \in Range(m.previousPeers) THEN arrived
                  ELSE Pushed(arrived, broadcastBlockFrom(m.to, PeersOf(m.to), m.block,
                                                          m.sender, m.previousPeers))
    /\ UNCHANGED <<miner, difficulty, coreVars, driverVars, restartDebounceTimer,
                   envVars, listening, registering, now, lastReorg, rejected, markedJobs,
                   search, peers, lastPush, timeouts>>

\* a push in flight reaches this node
ArrivesHere == \E m \in network.inflight : ReceiveHere(m)

\* a push in flight reaches another node
ArrivesThere == \E m \in network.inflight : ReceiveThere(m)

\* a push to this node is in flight
InFlightToHere == \E m \in network.inflight : m.to = myUrl

\* the nodes are constructed, the other nodes with any peers, themselves and
\* each other included
NetInit ==
    /\ Constructed(FALSE)
    /\ search = NoSearch
    /\ timeouts = NoTimeouts
    /\ \E topology \in [OtherNodes -> SUBSET NetNodes] :
          network = [NoNetwork EXCEPT !.peersOf = topology]

NetNext ==
    \/ StartNode
    \/ \E url \in NetNodes : PostRegister(url)
    \/ \E url \in NetNodes : PostDeregister(url)
    \/ \E url \in OtherNodes : MinedBy(url)
    \/ ArrivesHere
    \/ ArrivesThere

\* every fetch of a push completes: the request is handled or it fails.  The
\* weak fairness of the arrival at this node is written out,
\* []<>~(enabled) \/ []<><<A>>_vars, with the condition under which the step is
\* taken in the place of ENABLED <<A>>_vars
NetSpec ==
    /\ NetInit
    /\ [][NetNext]_vars
    /\ WF_vars(ArrivesThere)
    /\ ([]<>~InFlightToHere \/ []<><<ArrivesHere>>_vars)

-----------------------------------------------------------------------------
(* Properties of the block tree, the UTXO set and the mempool              *)

\* the sum of the difficulties from genesis to b, along the parents in the tree
CumulativeDifficulty(b) ==
    LET path == calculateChainFromTip(blocksByHash, b)
    IN  SumSeq([k \in DOMAIN path |-> path[k].difficulty])

CanonicalTip == getLatestBlock(Node)

InsertedAt(hash) == CHOOSE k \in DOMAIN blocksByHash : blocksByHash[k].hash = hash

\* C1: the canonical tip has the greatest cumulative difficulty of the tree, and
\* of the blocks that have it the tip is the one inserted first
C1_TipIsFirstHeaviest ==
    /\ MapHas(blocksByHash, chainTipHash)
    /\ \A k \in DOMAIN blocksByHash :
          /\ CumulativeDifficulty(blocksByHash[k]) <= CumulativeDifficulty(CanonicalTip)
          /\ CumulativeDifficulty(blocksByHash[k]) = CumulativeDifficulty(CanonicalTip)
                => InsertedAt(chainTipHash) <= k

\* two blocks of the tree share the greatest cumulative difficulty, above genesis
C1_Witness_TieAtTheTop ==
    /\ CanonicalTip.height > 0
    /\ \E k \in DOMAIN blocksByHash :
          /\ blocksByHash[k].hash # chainTipHash
          /\ CumulativeDifficulty(blocksByHash[k]) = CumulativeDifficulty(CanonicalTip)

\* C2: the UTXO set is the replay of the canonical chain from the empty set
C2_UtxoIsReplayOfChain ==
    LET replay == ReplayFrom(chain, <<>>)
    IN  replay.ok /\ replay.utxo = unspentTxOuts

\* a reorganisation detached a block with a transaction, or a sync replaced
\* a chain that had blocks
C2_Witness_AfterReorg ==
    /\ lastReorg.switched
    /\ lastReorg.detachedBlocks # <<>>
    /\ Len(chain) >= 3
    /\ Len(unspentTxOuts) >= 3

UtxoTotal == SumSeq([k \in DOMAIN unspentTxOuts |-> unspentTxOuts[k].amount])

\* C3: the amounts of the UTXO set add up to 100 times the canonical height
C3_TotalIsRewardTimesHeight == UtxoTotal = 100 * CanonicalTip.height

\* C4: every mempool transaction is valid against the canonical UTXO set
C4_PoolValidAgainstUtxo ==
    \A k \in DOMAIN transactionPool :
        validateTransaction(transactionPool[k], unspentTxOuts)

InputsOf(tx) == {<<tx.txIns[k].txOutId, tx.txIns[k].txOutIndex>> : k \in DOMAIN tx.txIns}

\* C5: two mempool transactions have different ids and share no input
C5_PoolPairwiseDisjoint ==
    \A i, j \in DOMAIN transactionPool :
        i # j => /\ transactionPool[i].id # transactionPool[j].id
                 /\ InputsOf(transactionPool[i]) \cap InputsOf(transactionPool[j]) = {}

\* a reorganisation re-admitted a detached transaction into a pool that held one
C5_Witness_ReadmittedBesideAnother ==
    /\ lastReorg.switched
    /\ Len(transactionPool) >= 2
    /\ \E k \in DOMAIN lastReorg.considered :
          /\ ~\E i \in DOMAIN lastReorg.considered[k].pool :
                 lastReorg.considered[k].pool[i].id = lastReorg.considered[k].tx.id
          /\ \E i \in DOMAIN transactionPool :
                 transactionPool[i].id = lastReorg.considered[k].tx.id

\* C7: no two entries of the UTXO set have the same (txOutId, txOutIndex)
C7_UtxoKeysUnique ==
    \A i, j \in DOMAIN unspentTxOuts :
        i # j => <<unspentTxOuts[i].txOutId, unspentTxOuts[i].txOutIndex>>
                    # <<unspentTxOuts[j].txOutId, unspentTxOuts[j].txOutIndex>>

\* some (txOutId, txOutIndex) occurs twice among the inputs of the transactions
SpendsTwice(txs) ==
    LET ins == Flatten([k \in DOMAIN txs |-> txs[k].txIns])
    IN  \E i, j \in DOMAIN ins :
            /\ i # j
            /\ ins[i].txOutId = ins[j].txOutId
            /\ ins[i].txOutIndex = ins[j].txOutIndex

\* the transaction lists a block of the next height may carry: a coinbase and up
\* to two of the transactions wallets sign
BlockBodies ==
    LET h == CanonicalTip.height + 1
        signed == {TxPay, TxSplit, TxTwice, TxEmpty}
        first == {getCoinbaseTransaction(addrB, h), rewardSpending}
    IN  {<<c>> : c \in first}
          \cup {<<c, t>> : c \in first, t \in signed}
          \cup {<<c, t, u>> : c \in first, t \in signed, u \in signed}

\* C8: processTransactions returns null for a block that spends an output twice,
\* in two transactions or twice in one, and no block of the tree spends an output
\* twice
C8_NoBlockSpendsTwice ==
    /\ \A txs \in BlockBodies :
          SpendsTwice(txs)
              => ~processTransactions(txs, unspentTxOuts, CanonicalTip.height + 1).ok
    /\ \A k \in DOMAIN blocksByHash : ~SpendsTwice(blocksByHash[k].data.transactions)

\* the parent of D2 is the tip, so that D2 fails on nothing but the output its
\* transaction spends twice
C8_Witness_OnlyTheRepeatFails ==
    /\ chainTipHash = B1.hash
    /\ D2.data.transactions \in BlockBodies
    /\ validateCoinbaseTx(D2.data.transactions[1], D2.height)
    /\ validateTransaction(D2.data.transactions[2], unspentTxOuts)
    /\ SpendsTwice(D2.data.transactions)
    /\ ~processTransactions(D2.data.transactions, unspentTxOuts, D2.height).ok
    /\ ~MapHas(blocksByHash, D2.hash)

\* C9: after a change of the canonical chain no mempool transaction is in a
\* block of the chain, nor spends an output that a transaction of the chain spends
C9_PoolCleanAfterChainUpdate ==
    [][chain' # chain =>
        LET chainTxs == ChainTxs(chain') IN
        \A k \in DOMAIN transactionPool' :
            /\ \A i \in DOMAIN chainTxs : chainTxs[i].id # transactionPool'[k].id
            /\ \A i \in DOMAIN chainTxs :
                  InputsOf(chainTxs[i]) \cap InputsOf(transactionPool'[k]) = {}]_vars

\* whether the k-th transaction of the detached blocks is the first of its block
DetachedIsCoinbase ==
    Flatten([k \in DOMAIN lastReorg.detachedBlocks |->
                [i \in DOMAIN lastReorg.detachedBlocks[k].data.transactions |-> i = 1]])

\* C10: after a switch a transaction of a detached block is in the mempool iff
\* it is not a coinbase, is not in the new chain, is valid on the new UTXO set
\* and did not conflict with the mempool when its turn came
C10_ReadmittedIffEligible ==
    lastReorg.switched =>
        \A k \in DOMAIN lastReorg.considered :
            LET tx == lastReorg.considered[k].tx IN
            (\E i \in DOMAIN lastReorg.transactionPool : lastReorg.transactionPool[i] = tx)
            <=> /\ ~DetachedIsCoinbase[k]
                /\ tx.id \notin lastReorg.newChainTxIds
                /\ validateTransaction(tx, lastReorg.unspentTxOuts)
                /\ ~isTxConflictingWithMempool(lastReorg.considered[k].pool, tx)

-----------------------------------------------------------------------------
(* Properties of chain sync and of block ingest                            *)

ChainDifficulty(c) == SumSeq([k \in DOMAIN c |-> c[k].difficulty])

\* the three conditions under which a fetched chain is to be adopted
SyncAdopts(remote) ==
    /\ validateChain(remote, difficulty, now)
    /\ ChainDifficulty(remote) > CumulativeDifficulty(CanonicalTip)
    /\ ReplayFrom(remote, <<>>).ok

\* C11: syncFromPeer replaces chain, tip, UTXO set and tree by the fetched chain
\* only if the chain is valid, strictly heavier than the local tip and replays;
\* otherwise chain, tip, UTXO set, tree and mempool are as before
C11_SyncReplacesOnlyOnSuccess ==
    \A remote \in PeerChains :
        LET after == syncFromPeer(Node, remote) IN
        IF SyncAdopts(remote)
        THEN /\ after.chain = remote
             /\ after.chainTipHash = remote[Len(remote)].hash
             /\ after.unspentTxOuts = ReplayFrom(remote, <<>>).utxo
             /\ after.blocksByHash = remote
        ELSE /\ after.chain = chain
             /\ after.chainTipHash = chainTipHash
             /\ after.unspentTxOuts = unspentTxOuts
             /\ after.blocksByHash = blocksByHash
             /\ after.transactionPool = transactionPool

\* after a sync, with B1 as tip and a mempool: a peer offers a chain with a bad
\* header, one that is valid and heavier but does not replay, and one no heavier
C11_Witness_EveryRefusal ==
    /\ registering < MaxBootstrap
    /\ chainTipHash = B1.hash
    /\ transactionPool # <<>>
    /\ ~validateChain(PeerChain(W2), difficulty, now)
    /\ ChainDifficulty(PeerChain(W2)) > CumulativeDifficulty(CanonicalTip)
    /\ validateChain(PeerChain(D2), difficulty, now)
    /\ ChainDifficulty(PeerChain(D2)) > CumulativeDifficulty(CanonicalTip)
    /\ ~ReplayFrom(PeerChain(D2), <<>>).ok
    /\ validateChain(PeerChain(B1), difficulty, now)
    /\ SyncAdopts(PeerChain(B2))

\* the header of b follows prev: recomputed hash, enough leading zeros, the
\* node's difficulty, next height, linked, and not older than prev
HeaderFollows(b, prev) ==
    /\ b.hash = hashBlockPayload([height |-> b.height, timestamp |-> b.timestamp,
                                  prevHash |-> b.prevHash, data |-> b.data,
                                  nonce |-> b.nonce, difficulty |-> b.difficulty])
    /\ b.hash.zeros >= b.difficulty
    /\ b.difficulty = difficulty
    /\ b.height = prev.height + 1
    /\ b.prevHash = prev.hash
    /\ b.timestamp >= prev.timestamp

InTree(b) == MapHas(blocksByHash, b.hash)

ParentInTree(b) == MapHas(blocksByHash, b.prevHash)

\* b is new, its parent is in the tree, and b fails the header check, or is dated
\* too far ahead, or the chain that ends in b does not replay from genesis
IsRejected(b) ==
    /\ b.height > 0
    /\ ~InTree(b)
    /\ ParentInTree(b)
    /\ LET candidateChain == calculateChainFromTip(blocksByHash, b) IN
          \/ ~HeaderFollows(b, MapGet(blocksByHash, b.prevHash))
          \/ b.timestamp - now > FUTURE_TOLERANCE_MS
          \/ candidateChain[1] # createGenesisBlock
          \/ ~ReplayFrom(candidateChain, <<>>).ok

\* C12: a block handleReceivedBlock rejects is not stored, and tree, cumulative
\* difficulties, chain, tip, UTXO set, mempool and orphan index are as before
C12_RejectionChangesNothing ==
    \A b \in PeerBlocks :
        IsRejected(b) =>
            LET after == handleReceivedBlock(Node, b) IN
            /\ ~MapHas(after.blocksByHash, b.hash)
            /\ after.blocksByHash = blocksByHash
            /\ after.totalDifficultyByHash = totalDifficultyByHash
            /\ after.chain = chain
            /\ after.chainTipHash = chainTipHash
            /\ after.unspentTxOuts = unspentTxOuts
            /\ after.transactionPool = transactionPool
            /\ after.orphanBlocks = orphanBlocks

\* with a side branch, a mempool and orphans, a block with a weak proof and a
\* block that spends an output twice are both to be rejected
C12_Witness_BothRejections ==
    /\ IsRejected(W2)
    /\ IsRejected(D2)
    /\ Len(blocksByHash) >= 4
    /\ transactionPool # <<>>
    /\ orphanBlocks # <<>>

\* C13: delivering again a block whose hash is in the block tree is a no-op:
\* the block tree, the cumulative difficulties, the canonical chain and its tip,
\* the UTXO set, the mempool, the orphan index and the scheduled mining restart
\* (with every other field of the node) are exactly as before the delivery.
C13_KnownBlockIsNoOp ==
    \A k \in DOMAIN blocksByHash : handleReceivedBlock(Node, blocksByHash[k]) = Node

\* the tree holds a block off the canonical chain and a block that came by a
\* sync while a child of it was waiting; the mempool is not empty
C13_Witness_KnownWithWaitingChild ==
    /\ \E k \in DOMAIN blocksByHash :
          /\ blocksByHash[k].hash \in DOMAIN orphanBlocks
          /\ orphanBlocks[blocksByHash[k].hash] # <<>>
    /\ Len(blocksByHash) > Len(chain)
    /\ transactionPool # <<>>

\* C14: a rejection is terminal for the hash: a block handleReceivedBlock has
\* rejected (its parent being known) is rejected at every later delivery, so it
\* is never in the block tree
C14_RejectedStaysOut == \A h \in rejected : ~MapHas(blocksByHash, h)

\* the node after it has ingested three blocks one after the other
IngestThree(first, second, third) ==
    handleReceivedBlock(handleReceivedBlock(handleReceivedBlock(Node, first), second),
                        third)

\* C15: draining the orphans does not depend on the order of arrival: while B1
\* is unknown to the node, two blocks that descend from B1 ingested before B1
\* leave the same canonical tip, canonical chain and UTXO set as B1 ingested
\* first and the two blocks after it
C15_DrainIsOrderInsensitive ==
    ~InTree(B1) =>
        \A X, Y \in PeerBlocks \ {B1} :
            X # Y =>
                LET late == IngestThree(X, Y, B1)
                    inOrder == IngestThree(B1, X, Y)
                IN  /\ late.chainTipHash = inOrder.chainTipHash
                    /\ late.chain = inOrder.chain
                    /\ late.unspentTxOuts = inOrder.unspentTxOuts

\* block b, which is not in the tree, extends the canonical tip and passes
\* the header checks and the replay of the chain it would end
ExtendsTip(b) ==
    /\ ~InTree(b)
    /\ b.prevHash = chainTipHash
    /\ HeaderFollows(b, CanonicalTip)
    /\ ~(b.timestamp - now > FUTURE_TOLERANCE_MS)
    /\ ReplayFrom(Append(chain, b), <<>>).ok

\* block c waits in the orphan index for b and is a valid child of b
WaitsValidFor(c, b) ==
    /\ b.hash \in DOMAIN orphanBlocks
    /\ \E i \in DOMAIN orphanBlocks[b.hash] : orphanBlocks[b.hash][i] = c
    /\ HeaderFollows(c, b)
    /\ ~(c.timestamp - now > FUTURE_TOLERANCE_MS)
    /\ ReplayFrom(chain \o <<b, c>>, <<>>).ok

\* C16: a node whose tip has height 1 holds a valid block of height 3 as an
\* orphan; when handleReceivedBlock ingests the missing valid parent of height 2,
\* the node it returns has its tip at height 3 (the state with the tip at height
\* 2 is inside the handler only) and no orphan entry for the parent's hash
C16_ParentTakesTipToOrphan ==
    \A X, Y \in PeerBlocks :
        (CanonicalTip.height = 1 /\ ExtendsTip(X) /\ WaitsValidFor(Y, X)) =>
            LET after == handleReceivedBlock(Node, X) IN
            /\ getLatestBlock(after).height = 3
            /\ after.chain[Len(after.chain)].height = 3
            /\ Len(after.chain) = 4
            /\ MapHas(after.blocksByHash, Y.hash)
            /\ X.hash \notin DOMAIN after.orphanBlocks

\* the tip is B1, S3 waits for B2 beside another orphan, the mempool is not empty
C16_Witness_GrandchildWaits ==
    /\ CanonicalTip = B1
    /\ ExtendsTip(B2)
    /\ WaitsValidFor(S3, B2)
    /\ OrphanCount(orphanBlocks) = 2
    /\ transactionPool # <<>>

\* every block of the tree is the hardcoded genesis or has its parent in the tree
TreeIsClosed ==
    \A k \in DOMAIN blocksByHash :
        LET b == blocksByHash[k] IN
        IF b.height = 0 THEN b = createGenesisBlock ELSE ParentInTree(b)

\* every stored orphan is stored under its prevHash, and one whose parent is
\* not in the tree is not in the tree either
OrphansAreKeyedByParent ==
    \A h \in DOMAIN orphanBlocks :
        \A i \in DOMAIN orphanBlocks[h] :
            LET o == orphanBlocks[h][i] IN
            /\ o.prevHash = h
            /\ ~ParentInTree(o) => ~InTree(o)

\* the orphan index o with block b appended to the list kept under b.prevHash
WithOrphan(o, b) ==
    [h \in DOMAIN o \cup {b.prevHash} |->
        IF h = b.prevHash
        THEN Append(IF h \in DOMAIN o THEN o[h] ELSE <<>>, b)
        ELSE o[h]]

\* C17: in every reachable state every block of the block tree is the hardcoded
\* genesis (height 0) or has its parent in the tree; a received block whose
\* parent is unknown is stored in the orphan index under its prevHash, there
\* only, and is not put into the tree
C17_TreeClosedOrphansOutside ==
    /\ TreeIsClosed
    /\ OrphansAreKeyedByParent
    /\ \A b \in PeerBlocks :
          (b.height > 0 /\ ~InTree(b) /\ ~ParentInTree(b)) =>
              LET after == handleReceivedBlock(Node, b) IN
              /\ after.blocksByHash = blocksByHash
              /\ after.orphanBlocks = WithOrphan(orphanBlocks, b)
              /\ after.chain = chain
              /\ after.totalDifficultyByHash = totalDifficultyByHash

\* a tree of three blocks, rebuilt once by a sync, while a block whose parent
\* is unknown waits and another one is about to be received
C17_Witness_TreeAndOrphans ==
    /\ Len(blocksByHash) >= 3
    /\ registering < MaxBootstrap
    /\ orphanBlocks # <<>>
    /\ \E b \in PeerBlocks : b.height > 0 /\ ~InTree(b) /\ ~ParentInTree(b)

\* C18: for every block of the block tree but genesis the cumulative difficulty
\* recorded in totalDifficultyByHash is the one recorded for its parent plus the
\* block's own difficulty, and the one recorded for genesis is 0; this holds
\* after every ingest and after syncFromPeer has rebuilt the maps
C18_RecordedTotalsAddUp ==
    \A k \in DOMAIN blocksByHash :
        LET b == blocksByHash[k] IN
        /\ b.hash \in DOMAIN totalDifficultyByHash
        /\ IF b.height = 0
           THEN totalDifficultyByHash[b.hash] = 0
           ELSE /\ b.prevHash \in DOMAIN totalDifficultyByHash
                /\ totalDifficultyByHash[b.hash] =
                       totalDifficultyByHash[b.prevHash] + b.difficulty

\* after a sync has rebuilt the maps, ingests have grown the chain and a side
\* branch beside it
C18_Witness_RebuiltThenForked ==
    /\ registering < MaxBootstrap
    /\ MapHas(blocksByHash, B1.hash)
    /\ Len(chain) >= 3
    /\ Len(blocksByHash) > Len(chain)
    /\ \E k \in DOMAIN blocksByHash :
          totalDifficultyByHash[blocksByHash[k].hash] = 2 * DefaultDifficulty

\* C19: no operation removes a block from the block tree: the blocks of a
\* branch that a reorg or a chain sync has left stay in the tree
C19_TreeOnlyGrows ==
    [][\A k \in DOMAIN blocksByHash : MapHas(blocksByHash', blocksByHash[k].hash)]_vars

\* C20: every block of the canonical chain but genesis satisfies, relative to
\* the block before it on the chain: its hash is the recomputed hash of its
\* header, the hash meets the block's difficulty, the difficulty is the node's,
\* its height is the predecessor's plus 1, its prevHash is the predecessor's
\* hash, and its timestamp is not earlier than the predecessor's
C20_ChainHeadersFollow ==
    \A i \in 2..Len(chain) : HeaderFollows(chain[i], chain[i - 1])

\* a chain of four blocks beside a side branch, while a block with a weak
\* proof on B1 is one the node rejects
C20_Witness_LongChainAndWeakBlock ==
    /\ Len(chain) = 4
    /\ Len(blocksByHash) > Len(chain)
    /\ IsRejected(W2)

\* tx has the shape of a coinbase for height h: one input with an empty
\* txOutId, the index h, no signature and no public key; one output of 100; and
\* the id of its content
CoinbaseShaped(tx, h) ==
    /\ Len(tx.txIns) = 1
    /\ tx.txIns[1].txOutId = ""
    /\ tx.txIns[1].txOutIndex = h
    /\ tx.txIns[1].signature = ""
    /\ tx.txIns[1].publicKey = ""
    /\ Len(tx.txOuts) = 1
    /\ tx.txOuts[1].amount = 100
    /\ tx.id = generateTransactionId(tx.txIns, tx.txOuts)

\* C30: the first transaction of every block of the tree above genesis, which
\* validateCoinbaseTx has accepted for the height of the block, has the shape of
\* a coinbase for that height
C30_CoinbaseAcceptedOnlyIfShaped ==
    \A k \in DOMAIN blocksByHash :
        LET b == blocksByHash[k] IN
        (b.height > 0 /\ validateCoinbaseTx(b.data.transactions[1], b.height))
            => CoinbaseShaped(b.data.transactions[1], b.height)

-----------------------------------------------------------------------------
(* Properties of the transaction endpoint, the queries and the gossip      *)

\* tx passes the three tests of the pool: valid against the canonical UTXO set,
\* no pool transaction with its id, none of its inputs among the pool's inputs
Admissible(tx) ==
    /\ validateTransaction(tx, unspentTxOuts)
    /\ \A k \in DOMAIN transactionPool :
          /\ transactionPool[k].id # tx.id
          /\ InputsOf(transactionPool[k]) \cap InputsOf(tx) = {}

\* C21: addToTransactionPool accepts a transaction if and only if it is valid
\* against the canonical UTXO set, no pool transaction has its id and none of
\* its inputs is consumed by a pool transaction; an accepted transaction is
\* appended at the end of the pool and (on a miner) a restart is scheduled; on a
\* rejection the pool is unchanged and no restart is scheduled
C21_PoolAcceptsIffAdmissible ==
    \A tx \in SubmittedTxs :
        LET after == addToTransactionPool(Node, tx) IN
        IF Admissible(tx)
        THEN after = [Node EXCEPT !.transactionPool = Append(transactionPool, tx),
                                  !.restartDebounceTimer = miner \/ @]
        ELSE after = Node

\* on a miner with no restart scheduled the pool holds TxPay; TxSplit, valid and
\* with another id, spends the same output
C21_Witness_SecondSpenderWaits ==
    /\ miner
    /\ ~restartDebounceTimer
    /\ transactionPool = <<TxPay>>
    /\ validateTransaction(TxSplit, unspentTxOuts)
    /\ TxSplit.id # TxPay.id
    /\ InputsOf(TxSplit) \cap InputsOf(TxPay) # {}
    /\ Admissible(TxEmpty)

\* the addresses a wallet asks about: the two key holders and a stranger
QueriedAddresses == {addrA, addrB, sha256Hex("pkC")}

\* u is an input of a transaction of the mempool
ConsumedByPool(u) ==
    \E k \in DOMAIN transactionPool : <<u.txOutId, u.txOutIndex>> \in InputsOf(transactionPool[k])

\* the canonical unspent outputs of address that no mempool transaction consumes
AvailableTo(address) ==
    LET Free(u) == u.address = address /\ ~ConsumedByPool(u)
    IN  SelectSeq(unspentTxOuts, Free)

C29_BalanceOfFiltered ==
    \A address \in QueriedAddresses :
        getBalance(Node, address) =
            SumSeq([k \in DOMAIN getUnspent(Node, address) |->
                       getUnspent(Node, address)[k].amount])

\* the fields of the node that the handlers of block pushes write
nodeVars == <<coreVars, driverVars, restartDebounceTimer, envVars>>

\* the step is the handling of the push that lastPush records after it
PushHandled ==
    /\ lastPush'.block # NoBlock
    /\ PostBlocksNewFrom(lastPush'.block, lastPush'.sender, lastPush'.previousPeers)

\* C26: a push whose previousPeers names this node changes nothing in the node
\* and is sent on to nobody; any other push is sent on with the received
\* previousPeers followed by this node's url, and to no peer that is in the
\* received previousPeers, is the sender, or is this node
C26_LoopPrevention ==
    [][PushHandled =>
          IF myUrl \in Range(lastPush'.previousPeers)
          THEN UNCHANGED nodeVars /\ lastPush'.sent = {}
          ELSE \A m \in lastPush'.sent :
                  /\ m.previousPeers = lastPush'.previousPeers \o <<myUrl>>
                  /\ m.to \notin Range(lastPush'.previousPeers)
                  /\ m.to # lastPush'.sender
                  /\ m.to # myUrl]_vars

\* the node, registered as its own peer, has sent a block on to n3 and to no
\* other peer: n2 sent it and n1 is in its trail
C26_Witness_SentOnToTheRest ==
    /\ peers = Urls
    /\ lastPush.sender = "n2"
    /\ lastPush.previousPeers = <<"n1">>
    /\ {m.to : m \in lastPush.sent} = {"n3"}

\* block was not in the tree before the step and is in it after
NewlyAccepted(block) == ~InTree(block) /\ MapHas(blocksByHash', block.hash)

\* C27: a pushed block is sent on to peers only if this delivery has put it
\* into the block tree
C27_OnlyNewBlocksAreGossiped ==
    [][(PushHandled /\ lastPush'.sent # {}) => NewlyAccepted(lastPush'.block)]_vars

-----------------------------------------------------------------------------
(* Properties of the mining driver                                         *)

WorkersWithAJob == {w \in DOMAIN workers : Executing(w)}

\* C6: at no time does more than one worker execute or hold a mine command
C6_OneJobInFlight == Cardinality(WorkersWithAJob) <= 1

\* the handler has started a job: a fresh cancel word holding 0 is the one of
\* the driver, the job-running flag is set, and the mine command, on the
\* canonical tip, is the last one posted to the driver's worker
JobStarted(before, after) ==
    /\ after.miningInProgress
    /\ Len(after.sabs) = Len(before.sabs) + 1
    /\ after.cancelSAB = Len(after.sabs)
    /\ after.sabs[after.cancelSAB] = 0
    /\ after.miningWorker # 0
    /\ LET w == after.workers[after.miningWorker] IN
       w.state = "running" =>
           /\ w.inbox # <<>>
           /\ w.inbox[Len(w.inbox)].cmd = "mine"
           /\ w.inbox[Len(w.inbox)].cancelSAB = after.cancelSAB
           /\ w.inbox[Len(w.inbox)].payload.prevHash = getLatestBlock(after).hash

\* the restart debounce timer fires while the driver has a job running
FiresOnRunningJob ==
    (restartDebounceTimer /\ miningInProgress) =>
        LET after == performMiningRestart(Node) IN
        /\ cancelSAB # 0
        /\ after.sabs = [sabs EXCEPT ![cancelSAB] = 1]
        /\ after.miningRestartPending
        /\ after.miningInProgress
        /\ after.cancelSAB = cancelSAB
        /\ after.workers = workers

\* the restart debounce timer fires on a miner that has no job running
FiresOnIdleMiner ==
    (restartDebounceTimer /\ ~miningInProgress /\ miner) =>
        JobStarted(Node, performMiningRestart(Node))

\* a success or canceled message is handled: with a restart pending, the
\* pending mark is cleared and a job is started; a success starts a job in any
\* case; a canceled message with nothing pending releases the flag only
MessageReleasesAndRestarts ==
    \A w \in DOMAIN workers :
        (~workers[w].exited /\ workers[w].outbox # <<>>) =>
            LET msg == Head(workers[w].outbox)
                before == [Node EXCEPT !.workers[w].outbox = Tail(@)]
                after == onMessage(before, msg)
            IN  /\ msg.ok = "true" \/ msg.canceled
                /\ ~after.miningRestartPending
                /\ (miningRestartPending \/ msg.ok = "true") /\ miner
                      => JobStarted(before, after)
                /\ (msg.canceled /\ ~miningRestartPending) =>
                      /\ ~after.miningInProgress
                      /\ after.sabs = sabs
                      /\ after.workers = before.workers

\* the message of a job that the firing timer canceled and marked is handled on a
\* miner: a new job is started
MarkedJobMessageRestarts ==
    \A w \in DOMAIN workers :
        (miner /\ ~workers[w].exited /\ workers[w].outbox # <<>>
           /\ Head(workers[w].outbox).job \in markedJobs) =>
            LET before == [Node EXCEPT !.workers[w].outbox = Tail(@)]
            IN  JobStarted(before, onMessage(before, Head(workers[w].outbox)))

\* C22: when the restart debounce timer fires while a job is running, the cancel
\* word of that job is set to 1 and restart-pending is marked; when a success or
\* canceled message is then handled, the job-running flag is released,
\* restart-pending is cleared and a new job is started; when the timer fires
\* with no job running, a new job is started at once
C22_DebouncedRestart ==
    /\ FiresOnRunningJob
    /\ FiresOnIdleMiner
    /\ MessageReleasesAndRestarts
    /\ MarkedJobMessageRestarts

\* a running worker holds a mine command built on block b
JobOn(b) ==
    \E w \in DOMAIN workers :
        /\ workers[w].state = "running"
        /\ \E i \in DOMAIN workers[w].inbox :
              /\ workers[w].inbox[i].payload.prevHash = b.hash
              /\ workers[w].inbox[i].payload.prevHeight = b.height

\* what the claim assumes away: mining is disabled or the tip has moved on
\* from B1; and a run that has used up its workers or cancel words
C23_Excused == ~miner \/ chainTipHash # B1.hash \/ OutOfBudget

\* mining is enabled, the peer's block B1 is the tip and a job on its parent runs
C23_JobOnParent == miner /\ chainTipHash = B1.hash /\ JobOn(createGenesisBlock)

\* the mine commands the step has posted: those with a cancel word that did not
\* exist before
PostedJobs ==
    {c \in UNION {Range(workers'[w].inbox) : w \in DOMAIN workers'} :
        c.cancelSAB > Len(sabs)}

RunningWorkers == {w \in DOMAIN workers : workers[w].state = "running"}

\* C25: the respawn callback set by the 'error' and 'exit' handlers leaves no
\* more than one worker thread alive and no more than one worker with a job
C25_RespawnKeepsOne ==
    [][RespawnTimerFire =>
          /\ Cardinality(RunningWorkers') <= 1
          /\ Cardinality(WorkersWithAJob') <= 1]_vars

-----------------------------------------------------------------------------
(* Properties of the proof-of-work loop                                    *)

\* C24: the loop never makes more than 4096 attempts in a row without reading
\* the cancel word; once the word holds 1 the loop returns within 4096 further
\* attempts; and what it returns is canceled (the word holding 1) or a block
\* whose hash meets the difficulty
C24_PollsEvery4096 ==
    /\ search.unread <= CancelPollMask + 1
    /\ search.sinceSet <= CancelPollMask + 1
    /\ search.sinceSet = CancelPollMask + 1 => search.pc = "returned"
    /\ search.pc = "returned" =>
          \/ search.result = "canceled" /\ search.flag = 1
          \/ search.result = "block" /\ search.nonce = search.firstProof

\* the word is set before the first attempt and the loop returns canceled at
\* its first poll, 4096 attempts later
C24_Witness_CanceledAtNextPoll ==
    /\ search.pc = "returned"
    /\ search.result = "canceled"
    /\ search.sinceSet = CancelPollMask + 1
    /\ search.attempts = CancelPollMask + 1

-----------------------------------------------------------------------------
(* Properties of the transaction validator                                 *)

\* tx has inputs and outputs, and no output of a negative amount
WellFormed(tx) ==
    /\ tx.txIns # <<>>
    /\ tx.txOuts # <<>>
    /\ \A k \in DOMAIN tx.txOuts : tx.txOuts[k].amount >= 0

\* the transactions of the blocks of the tree that are not the first of their block
StoredNonCoinbase ==
    UNION {{blocksByHash[k].data.transactions[i] :
               i \in 2..Len(blocksByHash[k].data.transactions)} :
           k \in DOMAIN blocksByHash}

\* C31: validateTransaction rejects every transaction without inputs, without
\* outputs or with a negative amount, and no such transaction is in the mempool
\* or, as a transaction that is not the coinbase, in a block of the tree
C31_OnlyWellFormedTransactions ==
    /\ \A tx \in SubmittedTxs :
          ~WellFormed(tx) => ~validateTransaction(tx, unspentTxOuts)
    /\ \A k \in DOMAIN transactionPool : WellFormed(transactionPool[k])
    /\ \A tx \in StoredNonCoinbase : WellFormed(tx)

\* A pays 5 to the address c9 and 95 to the address d
TxWay ==
    SignedTransaction(<<<<reward1A.id, 0>>>>, <<TxOut("c9", 5), TxOut("d", 95)>>, "pkA")

\* the transactions the wallet of A builds on its first reward
WalletTxs == {TxPay, TxTwice, TxWay}

\* the wallet of key has built and signed tx on the canonical UTXO set: every
\* input references an unspent output of the key's address and carries the key
\* and the signature of signTxIn, and the outputs add up to the inputs
SignedByOwner(tx, key) ==
    /\ tx.id = generateTransactionId(tx.txIns, tx.txOuts)
    /\ \A k \in DOMAIN tx.txIns :
          /\ HasUnspentTxOut(tx.txIns[k].txOutId, tx.txIns[k].txOutIndex, unspentTxOuts)
          /\ findUnspentTxOut(tx.txIns[k].txOutId, tx.txIns[k].txOutIndex,
                              unspentTxOuts).address = sha256Hex(key)
          /\ tx.txIns[k].publicKey = key
          /\ tx.txIns[k].signature = signTxIn(tx, k - 1, key)
    /\ SumSeq([k \in DOMAIN tx.txIns |-> getTxInAmount(tx.txIns[k], unspentTxOuts)])
          = SumSeq([k \in DOMAIN tx.txOuts |-> tx.txOuts[k].amount])

\* the values a tampered field is given
TamperAddresses == {addrB, "c", "c9", "d", "d9"}
TamperAmounts == {0, 5, 95, 100}
TamperIndexes == {0, 1}

\* tx after a change of output amounts, output addresses or input indexes, the
\* id left as it was or computed again; the signatures are those of tx
Tamperings(tx) ==
    LET ins == {[k \in DOMAIN tx.txIns |-> [tx.txIns[k] EXCEPT !.txOutIndex = ix[k]]] :
                   ix \in [DOMAIN tx.txIns -> TamperIndexes]}
        outs == {[k \in DOMAIN tx.txOuts |-> TxOut(ad[k], am[k])] :
                    ad \in [DOMAIN tx.txOuts -> TamperAddresses],
                    am \in [DOMAIN tx.txOuts -> TamperAmounts]}
        changed == {io \in ins \X outs : io[1] # tx.txIns \/ io[2] # tx.txOuts}
    IN  {[id |-> tx.id, txIns |-> io[1], txOuts |-> io[2]] : io \in changed}
          \cup {[id |-> generateTransactionId(io[1], io[2]), txIns |-> io[1],
                 txOuts |-> io[2]] : io \in changed}

\* C32: a transaction that the owner of its inputs has signed and whose outputs
\* add up to its inputs passes validateTransaction, and after a change of an
\* output amount, an output address or an input index, with the old id or with
\* the id computed again, validateTransaction returns false
C32_SignVerifyRoundTrip ==
    \A tx \in WalletTxs :
        SignedByOwner(tx, "pkA") =>
            /\ validateTransaction(tx, unspentTxOuts)
            /\ \A t \in Tamperings(tx) : ~validateTransaction(t, unspentTxOuts)

-----------------------------------------------------------------------------
(* Properties of the candidates the driver assembles                       *)

\* the pool is the pool before the step without the transactions that are
\* invalid against the UTXO set the step leaves, in the order they had
PoolAfterDisposal ==
    LET ValidAfter(t) == validateTransaction(t, unspentTxOuts')
    IN  /\ \A k \in DOMAIN transactionPool' : ValidAfter(transactionPool'[k])
        /\ chain' = chain => transactionPool' = SelectSeq(transactionPool, ValidAfter)

\* the first n elements of a list, or all of it if it is shorter
Front(list, n) == SubSeq(list, 1, IF Len(list) < n THEN Len(list) ELSE n)

\* C33: every mine command a step posts carries, first, the coinbase that pays
\* the node's mining address the reward at the height after the canonical tip,
\* then the first two (or fewer) transactions of the mempool, in pool order,
\* the mempool being the one from which the transactions invalid against the
\* canonical UTXO set have been removed; its prevHash and prevHeight are the
\* canonical tip's and its difficulty is the node's
C33_CandidateAssembly ==
    [][\A c \in PostedJobs :
          /\ PoolAfterDisposal
          /\ c.payload.transactions[1] =
                 getCoinbaseTransaction(miningAddress, MapGet(blocksByHash', chainTipHash').height + 1)
          /\ Tail(c.payload.transactions) = Front(transactionPool', TX_PER_BLOCK)
          /\ Len(c.payload.transactions) <= 1 + TX_PER_BLOCK
          /\ c.payload.prevHash = chainTipHash'
          /\ c.payload.prevHeight = MapGet(blocksByHash', chainTipHash').height
          /\ c.payload.difficulty = difficulty']_vars

\* the worker is at work on B2 with the coinbase and the first two of the three
\* transactions of the mempool
C33_Witness_TwoOfThree ==
    /\ chainTipHash = B2.hash
    /\ Len(transactionPool) = 3
    /\ \E w \in DOMAIN workers :
          /\ Executing(w)
          /\ Head(workers[w].inbox).cancelSAB = cancelSAB
          /\ Head(workers[w].inbox).payload.prevHash = B2.hash
          /\ Head(workers[w].inbox).payload.transactions =
                 <<getCoinbaseTransaction(miningAddress, 3)>> \o Front(transactionPool, 2)

-----------------------------------------------------------------------------
(* Properties of mining with difficulty 0                                  *)

\* the 'message' handler takes from worker w a block that the worker mined on
\* the block that is the canonical tip, and that is not yet in the tree
MinedOnTipHandled(w) ==
    /\ MessageWaits(w)
    /\ Head(workers[w].outbox).ok = "true"
    /\ Head(workers[w].outbox).block.prevHash = chainTipHash
    /\ ~InTree(Head(workers[w].outbox).block)
    /\ HandleMessage(w)

\* C34: on a node with difficulty 0 the worker's first attempt (nonce 0)
\* succeeds, and every block the node has mined on its canonical tip is put
\* into the block tree and becomes the canonical tip, the chain one block longer
C34_FreeMiningGrowsChain ==
    [][\A w \in DOMAIN workers :
          MinedOnTipHandled(w) =>
              LET block == Head(workers[w].outbox).block IN
              /\ block.nonce = 0
              /\ MapHas(blocksByHash', block.hash)
              /\ chainTipHash' = block.hash
              /\ chain' = Append(chain, block)]_vars

-----------------------------------------------------------------------------
(* Properties of the blocks the node mines                                 *)

\* C35: a block the node has mined on the block that is still its canonical
\* tip passes processTransactions on the canonical UTXO set, and the 'message'
\* handler that takes it makes it the canonical tip
C35_MinedBlockBecomesTip ==
    [][\A w \in DOMAIN workers :
          MinedOnTipHandled(w) =>
              LET block == Head(workers[w].outbox).block IN
              /\ processTransactions(block.data.transactions, unspentTxOuts,
                                     block.height).ok
              /\ chainTipHash' = block.hash]_vars

-----------------------------------------------------------------------------
(* Properties of the job-running flag                                      *)

\* the cancel words of the jobs of the node's current worker whose end the node
\* has not seen: the mine commands the worker holds and the messages it has
\* posted that wait for the 'message' handler
JobsOfCurrentWorker ==
    IF miningWorker = 0 THEN {}
    ELSE {c.cancelSAB : c \in Range(workers[miningWorker].inbox)}
            \cup {m.job : m \in Range(workers[miningWorker].outbox)}

\* C36: the job-running flag is set exactly when a job has been posted to the
\* node's current worker and neither its message nor the worker's error or exit
\* has been handled, and cancelSAB is then the cancel word of that job
C36_FlagTracksCurrentJob ==
    /\ miningInProgress =>
          /\ miningWorker # 0
          /\ cancelSAB # 0
          /\ workers[miningWorker].state = "running" => JobsOfCurrentWorker = {cancelSAB}
    /\ JobsOfCurrentWorker # {} => miningInProgress

-----------------------------------------------------------------------------
(* Properties of the fork choice over time                                 *)

\* the sum of the difficulties of the blocks from genesis to the block with hash
\* tipHash, along the parents in the tree blocks
TipWeight(blocks, tipHash) ==
    LET path == calculateChainFromTip(blocks, MapGet(blocks, tipHash))
    IN  SumSeq([k \in DOMAIN path |-> path[k].difficulty])

\* C37: no step lowers the cumulative difficulty of the canonical tip, and a
\* step that changes the canonical tip (a reorg in handleReceivedBlock, a chain
\* replacement in syncFromPeer) leaves a tip of strictly greater cumulative
\* difficulty
C37_TipWeightGrows ==
    [][/\ TipWeight(blocksByHash', chainTipHash') >= TipWeight(blocksByHash, chainTipHash)
       /\ chainTipHash' # chainTipHash =>
              TipWeight(blocksByHash', chainTipHash') > TipWeight(blocksByHash, chainTipHash)]_vars

\* after a sync, a reorg has taken the tip from a chain of weight 4 to a chain
\* of weight 6, and the block it detached is in the tree beside the new chain
C37_Witness_SwitchedToHeavier ==
    /\ registering < MaxBootstrap
    /\ lastReorg.switched
    /\ \E k \in DOMAIN lastReorg.detachedBlocks :
          /\ MapHas(blocksByHash, lastReorg.detachedBlocks[k].hash)
          /\ TipWeight(blocksByHash, lastReorg.detachedBlocks[k].hash)
                = 2 * DefaultDifficulty
    /\ TipWeight(blocksByHash, chainTipHash) = 3 * DefaultDifficulty

-----------------------------------------------------------------------------
(* Properties of the gossip of a block through a network                   *)

\* no url occurs twice in the trail
Simple(trail) == \A i, j \in DOMAIN trail : trail[i] = trail[j] => i = j

\* the trail of the push m is the trail of the push its sender was handed, with
\* the url of the sender added at the end; the node that mined the block starts
\* the trail
OneHopLonger(m) ==
    LET n == Len(m.previousPeers)
        before == SubSeq(m.previousPeers, 1, n - 1)
    IN  /\ n >= 1
        /\ m.previousPeers[n] = m.sender
        /\ \/ before = <<>> /\ m.sender = network.origin
           \/ \E d \in network.handled : d.to = m.sender /\ d.previousPeers = before

\* every push that was sent carries a trail without repetition, one url longer
\* than the trail its sender was handed, of at most as many urls as there are
\* nodes
TrailsAreSimplePaths ==
    \A m \in network.sent :
        /\ Simple(m.previousPeers)
        /\ OneHopLonger(m)
        /\ Len(m.previousPeers) <= Cardinality(NetNodes)

\* C38: in a network of N nodes with any peer sets, cycles and self-peers
\* included, every push of the block carries a previousPeers list in which no
\* url occurs twice, which is the list the sender received with the sender's url
\* appended, and which has at most N entries; and the pushes come to an end:
\* from some moment on no push is in flight
C38_GossipTerminates == []TrailsAreSimplePaths /\ <>[](network.inflight = {})

\* the block has gone round a network in which every node has every node as a
\* peer: a push with a trail of all three nodes was sent and handled, and no
\* push is left in flight
C38_Witness_RoundTheCycle ==
    /\ \A url \in NetNodes : PeersOf(url) = NetNodes
    /\ \E m \in network.handled : Len(m.previousPeers) = Cardinality(NetNodes) - 1
    /\ \E m \in network.sent : Len(m.previousPeers) = Cardinality(NetNodes) - 1
    /\ network.origin # ""
    /\ network.inflight = {}

-----------------------------------------------------------------------------
(* Properties of the restart debounce                                      *)

\* at most one timer is pending, it is the one the field holds, and it is due
\* one window after the last request; a timer is pending exactly if a request
\* was made since the last callback ran
OneTimerPending ==
    /\ Cardinality(timeouts.pending) <= 1
    /\ timeouts.pending =
          IF timeouts.handle = 0 THEN {}
          ELSE {[id |-> timeouts.handle, due |-> timeouts.lastRequest + RESTART_DEBOUNCE_MS]}
    /\ restartDebounceTimer <=> timeouts.handle # 0
    /\ timeouts.burst > 0 <=> timeouts.handle # 0
    /\ \A x \in timeouts.pending : now <= x.due

\* a step in which setTimeout is called: the node mines, the timer that was
\* pending is gone, and the only timer pending is a new one, due one window
\* from now
RequestRearms ==
    timeouts'.created # timeouts.created =>
        /\ miner
        /\ timeouts'.created = timeouts.created + 1
        /\ timeouts'.pending = {[id |-> timeouts'.created, due |-> now + RESTART_DEBOUNCE_MS]}
        /\ timeouts'.pending \cap timeouts.pending = {}

\* a step in which the callback runs: it is one window after the last request,
\* it ends the burst of the requests made since the callback last ran, which
\* has at least one request, and no timer is left
OneRestartPerBurst ==
    timeouts'.restarts # timeouts.restarts =>
        /\ timeouts'.restarts = timeouts.restarts + 1
        /\ now = timeouts.lastRequest + RESTART_DEBOUNCE_MS
        /\ timeouts.burst >= 1
        /\ timeouts'.lastBurst = timeouts.burst
        /\ timeouts'.pending = {}

\* C39: at most one debounce timer is pending at any time; each
\* requestMiningRestart of a mining node cancels the pending timer and arms a
\* new one; the requests of a burst, each made while the timer of the one before
\* is pending, cause one performMiningRestart by the timer, one window after the
\* last of them; and no timer is armed while mining is disabled
C39_RestartIsDebounced ==
    /\ []OneTimerPending
    /\ [][RequestRearms /\ OneRestartPerBurst]_vars
    /\ [][~miner => timeouts'.created = timeouts.created]_vars

\* the timer has just run once, after a burst of three requests of which the
\* last came less than a window after the first
C39_Witness_BurstOfThree ==
    /\ timeouts.restarts = 1
    /\ timeouts.lastBurst = 3
    /\ timeouts.created = 3
    /\ timeouts.pending = {}
    /\ now = timeouts.lastRequest + RESTART_DEBOUNCE_MS
    /\ now < 1 + 3 * RESTART_DEBOUNCE_MS
    /\ miningRestartPending

-----------------------------------------------------------------------------
(* Properties of the orphan index                                          *)

\* no block hash occurs twice in the list
NoHashTwice(list) == \A i, j \in DOMAIN list : list[i].hash = list[j].hash => i = j

\* C40: the list stored in orphanBlocks under a missing parent hash never
\* contains the same block hash twice, so that a block that is held as an orphan
\* and is delivered again leaves the index as it was
C40_OrphanHeldOnce == \A h \in DOMAIN orphanBlocks : NoHashTwice(orphanBlocks[h])

====
